---------------------------- MODULE Spec2Model ----------------------------
(***************************************************************************)
(* Frame engines of the BMS BLE tools.                                     *)
(*                                                                         *)
(* Protocol A (tools/daly_ble_read.py): 13-byte frames, start byte 0xA5,   *)
(* sum-mod-256 checksum, resynchronising scanner split_frames.             *)
(* Protocol B (tools/jk_ble_read.py, tools/jk_ble_probe.py): 300-byte      *)
(* frames, marker 55 AA EB 90, checksum crc_simple, JKDecoder and the      *)
(* probe's Assembler.                                                      *)
(*                                                                         *)
(* Bytes are integers 0..255.  Python's 0-based indices are kept: At(s, i) *)
(* is s[i] and Slice(s, a, b) is s[a:b].                                   *)
(***************************************************************************)
EXTENDS Integers, Sequences, FiniteSets, TLC

VARIABLES
    \* ---- protocol A session (daly_ble_read.main) ----
    buf,            \* the bytearray buf shared by on_notify and run_once
    ret,            \* frames returned by the last split_frames call
    st_frames,      \* st.frames      : cmd -> frame
    cell_frames,    \* st.cell_frames : frame_no -> frame
    temp_frames,    \* st.temp_frames : frame_no -> frame
    cell_order,     \* the keys of st.cell_frames in the dict's (insertion) order
    last_rx,        \* st.last_rx (logical time of the last notification with frames)
    a_n,            \* number of notifications delivered so far (logical clock)
    a_pc,           \* "session" | "call" | "done" (single-call specification)
    scen,           \* the buffer layout drawn for the single-call specification
    a_data,         \* the chunk of the last notification
    \* ---- run_once of daly_ble_read.main ----
    r_pc,           \* the await run_once is suspended in
    t_left,         \* ticks until the deadline of the current loop (deadline - _now())
    cell_count,     \* st.cell_count (0: None)
    temp_count,     \* st.temp_count (0: None)
    cells_by_no,    \* cells_by_no : bucket -> the three values of the segment
    frame_base,     \* frame_base (NONE: None)
    temps,          \* temps
    out_cells,      \* out["status"]["cells_95"] and out["got"]["95"]
    out_temps,      \* out["status"]["temps_96"] and out["got"]["96"]
    cell_log,       \* history: the 0x95 frames stored since st.cell_frames.clear()
    temp_log,       \* history: the 0x96 frames stored since st.temp_frames.clear()
    cells_seen,     \* history: Len(cell_log) when the cell loop last read st.cell_frames
    temps_seen,     \* history: Len(temp_log) at each read of st.temp_frames by the temp loop
    \* ---- verify_frame applied to one input ----
    vf_fr, vf_ret, vf_pc,
    \* ---- crc_simple applied to one input ----
    crc_arr, crc_n, crc_ret, crc_pc,
    \* ---- protocol B session: a JKDecoder (jk_ble_read) and an Assembler
    \*      (jk_ble_probe) fed the same notifications ----
    frame_buffer,           \* JKDecoder.frame_buffer
    bms_status,             \* JKDecoder.bms_status
    waiting_for,            \* JKDecoder.waiting_for
    bms_max_cell_count,     \* JKDecoder.bms_max_cell_count (0: None)
    translate_cell_info,    \* the table JKDecoder.translate_cell_info refers to
    tbl24, tbl32,           \* TRANSLATE_CELL_INFO_24S / _32S as they are now
    b_ret,                  \* what the last assemble_and_maybe_decode returned
    b_exc,                  \* the exception it raised ("none": it returned)
    b_data,                 \* the chunk it was given
    b_n,                    \* notifications so far; time.time() of the session
    asm_buf,                \* Assembler.buf
    asm_mid,                \* Assembler.buf right after buf.extend(data)
    asm_last_good,          \* Assembler.last_good
    asm_ret,                \* what the last feed returned
    asm_exc,                \* the exception it raised
    b_pc,                   \* jk_ble_read.main: "notify" while notifications are
                            \* taken, "printed" once the status is printed
    \* ---- build_number_write (jk_ble_write) applied to one input ----
    nw_proto, nw_key, nw_value, nw_ret, nw_pc,
    \* ---- a frame encoder applied to one input ----
    enc_fn,                 \* build_request, build_request_frame or build_write_frame
    enc_code,               \* its cmd or reg argument
    enc_vals4,              \* vals4 of build_write_frame
    enc_length,             \* length of build_write_frame
    enc_ret,                \* the frame it returns, or the exception it raises
    enc_pc,
    \* ---- main of daly_ble_read.py from its try block on ----
    dm_pc,                  \* the await main is at: "cache", "scan", "scan2", "run"; "ended"
    dm_args,                \* args: debug, scan (scan_timeout > 0), adapter given
    dm_dev,                 \* dev is not None
    dm_out,                 \* out: error (its type, "None": null), traceback, connected
    dm_stdout,              \* the objects printed to stdout
    dm_exit,                \* the exit status of the process (NONE: still running)
    \* ---- one run of jk_ble_read.py, started by the gateway or from a shell ----
    g_by,                   \* "gateway": started by _run_read; "shell": by a user
    g_in,                   \* _run_read's arguments: address, adapter ("": None),
                            \* timeout_s, scan_timeout_s
    g_argv,                 \* sys.argv[1:] of the reader
    g_pc,                   \* "start", "spawned", "connect", "read", "exited", "returned"
    g_stdout,               \* the documents the reader printed to stdout
    g_rc,                   \* its exit status (NONE: still running)
    g_result,               \* what _run_read returns: "json" (the parsed stdout),
                            \* "EmptyStdout" or "BadJSON"; "": nothing yet
    \* ---- main of jk_ble_write.py ----
    wm_args,                \* args: force, dry_run, proto, max_cell_v, set_ovp,
                            \* set_balance_start (<<>>: None), soc_reset, charging
    wm_ops,                 \* ops
    wm_pc,                  \* "start", "connect", "ops", "ended"
    wm_i,                   \* the operation the loop is at (1-based)
    wm_conn,                \* the BLE connection: "none", "failed", "open", "closed"
    wm_writes,              \* the register writes issued: target and frame
    wm_stdout,              \* what was printed to stdout
    wm_exit,                \* exit status (NONE: running), 1 for SystemExit(message)
                            \* and for an exception
    \* ---- the read transactions of the gateway processes of one host ----
    lk_pc,                  \* per gateway: "loop", "flock" (inside _with_ble_lock,
                            \* lock not held), "reading" (subprocess.run has not
                            \* returned), "ended" (TimeoutError left run)
    lk_holder,              \* the gateway whose open file holds the flock; "": none
    lk_tries,               \* per gateway: failed flock attempts of this transaction
    lk_reads,               \* per gateway: read transactions carried out
    \* ---- Gateway.run of one gateway (jk_ble_mqtt_gateway, daly_ble_mqtt_gateway) ----
    gw_kind,                \* "jk" or "daly"
    gw_pc,                  \* "top" (the while test), "devices" (the for loop is at
                            \* gw_i), "reading" (_run_read has not returned), "ended"
    gw_clock,               \* time.time(), in ticks of 0.1 s
    gw_now,                 \* now of the current iteration
    gw_next_poll,           \* next_poll: name -> time
    gw_poll_interval_s,     \* self.poll_interval_s, in ticks
    gw_cmdq,                \* self._cmdq
    gw_i,                   \* position of the for loop in self.devices (1-based)
    gw_did_work,            \* did_work
    gw_drained,             \* names of the read commands this iteration dequeued
    gw_iter_reads,          \* names this iteration has called _run_read for
    gw_payload,             \* payload: what the latest _run_read returned
    gw_pub,                 \* the publish calls of the latest step of run that
                            \* published: topic (name, suffix) and payload
    gw_online,              \* per device: the last payload published on its online
                            \* topic ("": none yet)
    \* ---- one byte stream delivered to two protocol-A sessions ----
    ck_stream,              \* the bytes the device sends
    ck_pos,                 \* per session: bytes delivered so far
    ck_buf,                 \* per session: buf
    ck_out,                 \* per session: all frames split_frames has returned
    ck_held                 \* per session: a notification has left bytes in buf

varsA   == <<buf, ret, st_frames, cell_frames, temp_frames, cell_order, last_rx, a_n,
             a_pc, scen, a_data>>
varsR   == <<r_pc, t_left, cell_count, temp_count, cells_by_no, frame_base, temps,
             out_cells, out_temps, cell_log, temp_log, cells_seen, temps_seen>>
varsVf  == <<vf_fr, vf_ret, vf_pc>>
varsCrc == <<crc_arr, crc_n, crc_ret, crc_pc>>
varsB   == <<frame_buffer, bms_status, waiting_for, bms_max_cell_count,
             translate_cell_info, tbl24, tbl32, b_ret, b_exc, b_data, b_n,
             asm_buf, asm_mid, asm_last_good, asm_ret, asm_exc, b_pc>>
varsW   == <<nw_proto, nw_key, nw_value, nw_ret, nw_pc>>
varsE   == <<enc_fn, enc_code, enc_vals4, enc_length, enc_ret, enc_pc>>
varsD   == <<dm_pc, dm_args, dm_dev, dm_out, dm_stdout, dm_exit>>
varsG   == <<g_by, g_in, g_argv, g_pc, g_stdout, g_rc, g_result>>
varsX   == <<wm_args, wm_ops, wm_pc, wm_i, wm_conn, wm_writes, wm_stdout, wm_exit>>
varsL   == <<lk_pc, lk_holder, lk_tries, lk_reads>>
varsGw  == <<gw_kind, gw_pc, gw_clock, gw_now, gw_next_poll, gw_poll_interval_s, gw_cmdq,
             gw_i, gw_did_work, gw_drained, gw_iter_reads, gw_payload, gw_pub,
             gw_online>>
varsCk  == <<ck_stream, ck_pos, ck_buf, ck_out, ck_held>>
vars    == <<varsA, varsR, varsVf, varsCrc, varsB, varsW, varsE, varsD, varsG, varsX, varsL, varsGw, varsCk>>

---------------------------------------------------------------------------
(* Python sequence primitives *)

At(s, i) == s[i + 1]

Min2(a, b) == IF a < b THEN a ELSE b

\* s[a:b] for 0 <= a, 0 <= b (out-of-range bounds are clamped, as in Python)
Slice(s, a, b) ==
    LET lo == Min2(a, Len(s))
        hi == Min2(b, Len(s))
    IN  IF hi <= lo THEN <<>> ELSE SubSeq(s, lo + 1, hi)

\* s[a:]
From(s, a) == Slice(s, a, Len(s))

\* sum(s): the sum of s[lo..hi] (1-based), halving the range
RECURSIVE SumRange(_, _, _)
SumRange(s, lo, hi) ==
    IF lo > hi THEN 0
    ELSE IF lo = hi THEN s[lo]
    ELSE LET mid == (lo + hi) \div 2
         IN  SumRange(s, lo, mid) + SumRange(s, mid + 1, hi)

SumBytes(s) == SumRange(s, 1, Len(s))

\* a dict as a function; d[k] = v
DictSet(d, k, v) == [x \in (DOMAIN d) \cup {k} |-> IF x = k THEN v ELSE d[x]]

EmptyDict == [x \in {} |-> 0]

\* n copies of byte b
Fill(b, n) == [i \in 1..n |-> b]

---------------------------------------------------------------------------
(* Protocol A: tools/daly_ble_read.py *)

START_A    == 165      \* 0xA5
FRAME_LEN  == 13
LEN_BYTE   == 8        \* 0x08
BUF_CAP    == 4096
BUF_KEEP   == 1024
CMD_CELLS  == 149      \* 0x95
CMD_TEMPS  == 150      \* 0x96

_checksum(frame_12) == SumBytes(frame_12) % 256

build_request(cmd) ==
    LET fr == <<START_A, 64, cmd % 256, LEN_BYTE>> \o Fill(0, 8)
    IN  Append(fr, _checksum(fr))

\* mutant of verify_frame: the checksum is not compared
verify_frame_nosum(fr) ==
    IF Len(fr) # FRAME_LEN THEN FALSE
    ELSE IF At(fr, 0) # START_A THEN FALSE
    ELSE At(fr, 3) = LEN_BYTE

\* mutant of verify_frame: the length byte is not checked
verify_frame_nolen(fr) ==
    IF Len(fr) # FRAME_LEN THEN FALSE
    ELSE IF At(fr, 0) # START_A THEN FALSE
    ELSE _checksum(Slice(fr, 0, 12)) = At(fr, 12) % 256

verify_frame(fr) ==
    IF Len(fr) # FRAME_LEN THEN FALSE
    ELSE IF At(fr, 0) # START_A THEN FALSE
    ELSE IF At(fr, 3) # LEN_BYTE THEN FALSE
    ELSE _checksum(Slice(fr, 0, 12)) = At(fr, 12) % 256

\* the inner loop  while i < len(buf) and buf[i] != 0xA5: i += 1
RECURSIVE FindStart(_, _)
FindStart(b, i) ==
    IF i < Len(b) /\ At(b, i) # START_A THEN FindStart(b, i + 1) ELSE i

\* mutant of ScanLoop: a failed candidate skips a whole frame length
RECURSIVE ScanLoop_skip13(_, _, _)
ScanLoop_skip13(b, i0, out) ==
    LET i == FindStart(b, i0) IN
    IF i >= Len(b) THEN [i |-> i, out |-> out]
    ELSE IF Len(b) - i < FRAME_LEN THEN [i |-> i, out |-> out]
    ELSE LET cand == Slice(b, i, i + FRAME_LEN) IN
         IF verify_frame(cand)
         THEN ScanLoop_skip13(b, i + FRAME_LEN, Append(out, cand))
         ELSE ScanLoop_skip13(b, i + FRAME_LEN, out)

\* the outer loop  while True  of split_frames, from position i0 with the
\* frames collected so far; the result is the final i and the list out
RECURSIVE ScanLoop(_, _, _)
ScanLoop(b, i0, out) ==
    LET i == FindStart(b, i0) IN
    IF i >= Len(b) THEN [i |-> i, out |-> out]
    ELSE IF Len(b) - i < FRAME_LEN THEN [i |-> i, out |-> out]
    ELSE LET cand == Slice(b, i, i + FRAME_LEN) IN
         IF verify_frame(cand)
         THEN ScanLoop(b, i + FRAME_LEN, Append(out, cand))
         ELSE ScanLoop(b, i + 1, out)

\* mutant of split_frames: the consumed bytes are not dropped
split_frames_nodrop(b) ==
    LET r == ScanLoop(b, 0, <<>>)
    IN  [out |-> r.out, buf |-> b]

\* split_frames that leaves nothing in the buffer
split_frames_clear(b) == [out |-> ScanLoop(b, 0, <<>>).out, buf |-> <<>>]

\* split_frames(buf): the frames returned and the buffer left behind
split_frames(b) ==
    LET r  == ScanLoop(b, 0, <<>>)
        b1 == IF r.i > 0 THEN From(b, r.i) ELSE b
        b2 == IF Len(b1) > BUF_CAP THEN From(b1, Len(b1) - BUF_KEEP) ELSE b1
    IN  [out |-> r.out, buf |-> b2]

\* mutant of StoreFrames: a segment index that is already stored keeps its
\* first frame
RECURSIVE StoreFrames_keepfirst(_, _)
StoreFrames_keepfirst(frames, st) ==
    IF frames = <<>> THEN st
    ELSE LET fr  == Head(frames)
             cmd == At(fr, 2) % 256
             fn  == At(fr, 4)
             st1 == IF cmd = CMD_CELLS
                      THEN IF fn \in DOMAIN st.cell_frames THEN st
                           ELSE [st EXCEPT !.cell_frames = DictSet(@, fn, fr),
                                           !.cell_order = Append(@, fn)]
                    ELSE IF cmd = CMD_TEMPS
                      THEN [st EXCEPT !.temp_frames = DictSet(@, fn, fr)]
                    ELSE [st EXCEPT !.frames = DictSet(@, cmd, fr)]
         IN  StoreFrames_keepfirst(Tail(frames), st1)

\* the loop  for fr in frames  of on_notify over the three dicts
RECURSIVE StoreFrames(_, _)
StoreFrames(frames, st) ==
    IF frames = <<>> THEN st
    ELSE LET fr  == Head(frames)
             cmd == At(fr, 2) % 256
             fn  == At(fr, 4)
             st1 == IF cmd = CMD_CELLS
                      THEN [st EXCEPT !.cell_frames = DictSet(@, fn, fr),
                                      !.cell_order =
                                          IF fn \in DOMAIN st.cell_frames THEN @
                                          ELSE Append(@, fn)]
                    ELSE IF cmd = CMD_TEMPS
                      THEN [st EXCEPT !.temp_frames = DictSet(@, fn, fr)]
                    ELSE [st EXCEPT !.frames = DictSet(@, cmd, fr)]
         IN  StoreFrames(Tail(frames), st1)

---------------------------------------------------------------------------
(* Protocol A inputs: frames as the device sends them and the chunks of a  *)
(* notification stream                                                     *)

\* a 13-byte frame with the given first four bytes, payload and checksum offset
MkFrameA(start, addr, cmd, lenb, payload, csoff) ==
    LET fr == <<start, addr, cmd, lenb>> \o payload
    IN  Append(fr, (SumBytes(fr) + csoff) % 256)

RespA(cmd, payload) == MkFrameA(START_A, 1, cmd, LEN_BYTE, payload, 0)

F94   == RespA(148, <<4, 1, 0, 0, 0, 0, 0, 0>>)
F95_1 == RespA(CMD_CELLS, <<1, 12, 228, 12, 229, 12, 227, 0>>)
F95_2 == RespA(CMD_CELLS, <<2, 12, 230, 0, 0, 0, 0, 0>>)
F96_1 == RespA(CMD_TEMPS, <<1, 65, 0, 0, 0, 0, 0, 0>>)
\* a frame whose payload holds the start byte
F90_A5 == RespA(144, <<2, 5, START_A, 0, 117, 48, 3, 232>>)
\* valid checksum but a length byte other than 8; a wrong checksum
F_LEN0  == MkFrameA(START_A, 1, 144, 0, Fill(0, 8), 0)
F_BADCS == MkFrameA(START_A, 1, 144, LEN_BYTE, Fill(0, 8), 1)
\* a valid frame B such that <<0xA5>> \o B[0:12] is a valid frame too
F_SHIFT ==
    LET p7 == (START_A + START_A + 1 + LEN_BYTE + LEN_BYTE) % 256
    IN  RespA(LEN_BYTE, <<0, 0, 0, 0, 0, 0, 0, p7>>)

\* ---- verify_frame on one input ----
VfBodies ==
    { MkFrameA(s0, 1, cmd, lenb, pl, off) :
        s0 \in {START_A, 164}, cmd \in {144, CMD_CELLS}, lenb \in {LEN_BYTE, 0, 7},
        pl \in {Fill(0, 8), <<1, 2, 3, 4, 5, 6, 7, 8>>, Fill(255, 8)},
        off \in {0, 1, 255} }

VfInputs ==
    VfBodies \cup { Slice(f, 0, 12) : f \in VfBodies }
             \cup { Append(f, 0) : f \in VfBodies } \cup { <<>> }

IdleVf  == vf_fr = <<>> /\ vf_ret = FALSE /\ vf_pc = "idle"

InitVf  == vf_fr \in VfInputs /\ vf_ret = FALSE /\ vf_pc = "call"

CallVerify ==
    /\ vf_pc = "call"
    /\ vf_ret' = verify_frame(vf_fr)
    /\ vf_pc' = "done"
    /\ UNCHANGED vf_fr

\* an accepted frame arrives with one payload byte (positions 4..11) changed
\* to another value, and verify_frame is called on it
CallVerifyChanged ==
    /\ vf_pc = "done" /\ vf_ret
    /\ \E p \in 4..11 : \E v \in (0..255) \ {At(vf_fr, p)} :
         /\ vf_fr' = [vf_fr EXCEPT ![p + 1] = v]
         /\ vf_ret' = verify_frame(vf_fr')
    /\ vf_pc' = "changed"

\* ---- split_frames on one buffer <g1><A><g2><B> ----
Garbage1 == { <<>>, <<0>>, <<START_A>>, <<0, START_A, LEN_BYTE>>, <<START_A, START_A>> }
Garbage2 == { <<START_A>>, <<START_A, 0>>, <<START_A, 1, CMD_CELLS, LEN_BYTE>>,
              Slice(F95_1, 0, 12), F_BADCS, F_LEN0 }
FramesA1 == { F94, F90_A5 }
FramesB1 == { F95_1, F90_A5, F_SHIFT }

Scenarios == [g1 : Garbage1, A : FramesA1, g2 : Garbage2, B : FramesB1]

ScenBuf(sc) == sc.g1 \o sc.A \o sc.g2 \o sc.B

NoScen == [g1 |-> <<>>, A |-> <<>>, g2 |-> <<>>, B |-> <<>>]

IdleA ==
    /\ buf = <<>> /\ ret = <<>>
    /\ st_frames = EmptyDict /\ cell_frames = EmptyDict /\ temp_frames = EmptyDict
    /\ cell_order = <<>>
    /\ last_rx = 0 /\ a_n = 0 /\ a_pc = "idle" /\ scen = NoScen /\ a_data = <<>>

InitSplit ==
    /\ scen \in Scenarios
    /\ buf = ScenBuf(scen) /\ ret = <<>>
    /\ st_frames = EmptyDict /\ cell_frames = EmptyDict /\ temp_frames = EmptyDict
    /\ cell_order = <<>>
    /\ last_rx = 0 /\ a_n = 0 /\ a_pc = "call" /\ a_data = <<>>

CallSplit ==
    /\ a_pc = "call"
    /\ LET r == split_frames(buf) IN ret' = r.out /\ buf' = r.buf
    /\ a_pc' = "done"
    /\ UNCHANGED <<st_frames, cell_frames, temp_frames, cell_order, last_rx, a_n, scen, a_data>>

\* ---- a session: notifications and the polling loops' split_frames ----
MaxNotifyA == 4

ChunksA ==
    { F94, F95_1, Slice(F95_2, 0, 5), From(F95_2, 5), F96_1,
      F_BADCS, F_LEN0, <<0>>, <<START_A>>, <<START_A>> \o F_SHIFT }

\* on_notify(_, data)
on_notify(data) ==
    /\ a_pc \in {"idle", "notified", "polled"}
    /\ a_n < MaxNotifyA
    /\ a_n' = a_n + 1
    /\ a_pc' = "notified"
    /\ LET r == split_frames(buf \o data) IN
         /\ buf' = r.buf
         /\ ret' = r.out
         /\ IF r.out = <<>>
            THEN UNCHANGED <<st_frames, cell_frames, temp_frames, cell_order, last_rx>>
            ELSE LET st == StoreFrames(r.out, [frames |-> st_frames,
                                               cell_frames |-> cell_frames,
                                               temp_frames |-> temp_frames,
                                               cell_order |-> cell_order])
                 IN  /\ last_rx' = a_n'
                     /\ st_frames' = st.frames
                     /\ cell_frames' = st.cell_frames
                     /\ temp_frames' = st.temp_frames
                     /\ cell_order' = st.cell_order
    /\ a_data' = data
    /\ UNCHANGED scen

\* _ = split_frames(buf) in the polling loops of run_once
PollSplit ==
    /\ a_pc = "notified"
    /\ LET r == split_frames(buf) IN ret' = r.out /\ buf' = r.buf
    /\ a_pc' = "polled"
    /\ UNCHANGED <<st_frames, cell_frames, temp_frames, cell_order, last_rx, a_n, scen, a_data>>

\* ---- one stream cut into notifications in two ways ----
\* streams with start bytes in the garbage and in a payload, a frame whose
\* shifted window validates, rejected frames and a cut-off frame at the end
ChunkStreams ==
    { <<0, START_A, LEN_BYTE>> \o F94 \o <<START_A>> \o F95_1,
      F90_A5 \o Slice(F95_1, 0, 12) \o F_SHIFT,
      <<START_A>> \o F_SHIFT \o F94,
      F_BADCS \o F95_1 \o <<START_A, 1, CMD_CELLS>>,
      F94 \o F_LEN0 \o F90_A5 }

Sessions == {1, 2}

IdleCk ==
    /\ ck_stream = <<>>
    /\ ck_pos = [e \in Sessions |-> 0]
    /\ ck_buf = [e \in Sessions |-> <<>>]
    /\ ck_out = [e \in Sessions |-> <<>>]
    /\ ck_held = [e \in Sessions |-> FALSE]

\* buf = bytearray() in both sessions, nothing delivered
InitCk ==
    /\ ck_stream \in ChunkStreams
    /\ ck_pos = [e \in Sessions |-> 0]
    /\ ck_buf = [e \in Sessions |-> <<>>]
    /\ ck_out = [e \in Sessions |-> <<>>]
    /\ ck_held = [e \in Sessions |-> FALSE]

\* the next n bytes of the stream arrive in session e as one notification:
\* buf.extend(bytearray(data)); frames = split_frames(buf)
FeedChunk(e, n) ==
    /\ ck_pos[e] + n <= Len(ck_stream)
    /\ LET data == Slice(ck_stream, ck_pos[e], ck_pos[e] + n)
           r    == split_frames(ck_buf[e] \o data)
       IN  /\ ck_buf' = [ck_buf EXCEPT ![e] = r.buf]
           /\ ck_out' = [ck_out EXCEPT ![e] = @ \o r.out]
           /\ ck_held' = [ck_held EXCEPT ![e] = @ \/ r.buf # <<>>]
    /\ ck_pos' = [ck_pos EXCEPT ![e] = @ + n]
    /\ UNCHANGED ck_stream

---------------------------------------------------------------------------
(* Protocol B: tools/jk_ble_read.py *)

MIN_RESPONSE_SIZE == 300
MAX_RESPONSE_SIZE == 320
VARIANT_FLAG_POS  == 287
VARIANT_MIN_LEN   == 292
WARNINGS_POS      == 136
SUM_LIMIT         == 65536     \* 2^16: what int.to_bytes(2, ...) can hold

MARKER == <<85, 170, 235, 144>>     \* 55 AA EB 90

NONE == -1                          \* Python's None in a list of numbers

\* A layout entry [[sec, key(, n)], off, fmt(, scale)].  n = -1: the path has
\* no element count.  scale is the reciprocal of the source's float factor
\* (1000 for 0.001, 10 for 0.1), 0 when the entry has none; a scaled value is
\* kept as the decoded integer, in units of 1/scale.
TRANSLATE_DEVICE_INFO == <<
    [sec |-> "device_info", key |-> "hw_rev", n |-> -1, off |-> 22, fmt |-> "8s", scale |-> 0],
    [sec |-> "device_info", key |-> "sw_rev", n |-> -1, off |-> 30, fmt |-> "8s", scale |-> 0],
    [sec |-> "device_info", key |-> "uptime", n |-> -1, off |-> 38, fmt |-> "<L", scale |-> 0],
    [sec |-> "device_info", key |-> "vendor_id", n |-> -1, off |-> 6, fmt |-> "16s", scale |-> 0],
    [sec |-> "device_info", key |-> "manufacturing_date", n |-> -1, off |-> 78, fmt |-> "8s", scale |-> 0],
    [sec |-> "device_info", key |-> "serial_number", n |-> -1, off |-> 86, fmt |-> "10s", scale |-> 0],
    [sec |-> "device_info", key |-> "production", n |-> -1, off |-> 102, fmt |-> "8s", scale |-> 0]
>>

TRANSLATE_SETTINGS == <<
    [sec |-> "settings", key |-> "cell_uvp", n |-> -1, off |-> 10, fmt |-> "<L", scale |-> 1000],
    [sec |-> "settings", key |-> "cell_uvpr", n |-> -1, off |-> 14, fmt |-> "<L", scale |-> 1000],
    [sec |-> "settings", key |-> "cell_ovp", n |-> -1, off |-> 18, fmt |-> "<L", scale |-> 1000],
    [sec |-> "settings", key |-> "cell_ovpr", n |-> -1, off |-> 22, fmt |-> "<L", scale |-> 1000],
    [sec |-> "settings", key |-> "balance_trigger_voltage", n |-> -1, off |-> 26, fmt |-> "<L", scale |-> 1000],
    [sec |-> "settings", key |-> "power_off_voltage", n |-> -1, off |-> 46, fmt |-> "<L", scale |-> 1000],
    [sec |-> "settings", key |-> "max_charge_current", n |-> -1, off |-> 50, fmt |-> "<L", scale |-> 1000],
    [sec |-> "settings", key |-> "max_discharge_current", n |-> -1, off |-> 62, fmt |-> "<L", scale |-> 1000],
    [sec |-> "settings", key |-> "max_balance_current", n |-> -1, off |-> 50, fmt |-> "<L", scale |-> 1000],
    [sec |-> "settings", key |-> "cell_count", n |-> -1, off |-> 114, fmt |-> "<L", scale |-> 0],
    [sec |-> "settings", key |-> "charging_switch", n |-> -1, off |-> 118, fmt |-> "4?", scale |-> 0],
    [sec |-> "settings", key |-> "discharging_switch", n |-> -1, off |-> 122, fmt |-> "4?", scale |-> 0],
    [sec |-> "settings", key |-> "balancing_switch", n |-> -1, off |-> 126, fmt |-> "4?", scale |-> 0]
>>

TRANSLATE_CELL_INFO_24S == <<
    [sec |-> "cell_info", key |-> "voltages", n |-> 32, off |-> 6, fmt |-> "<H", scale |-> 1000],
    [sec |-> "cell_info", key |-> "average_cell_voltage", n |-> -1, off |-> 58, fmt |-> "<H", scale |-> 1000],
    [sec |-> "cell_info", key |-> "delta_cell_voltage", n |-> -1, off |-> 60, fmt |-> "<H", scale |-> 1000],
    [sec |-> "cell_info", key |-> "max_voltage_cell", n |-> -1, off |-> 62, fmt |-> "<B", scale |-> 0],
    [sec |-> "cell_info", key |-> "min_voltage_cell", n |-> -1, off |-> 63, fmt |-> "<B", scale |-> 0],
    [sec |-> "cell_info", key |-> "resistances", n |-> 32, off |-> 64, fmt |-> "<H", scale |-> 1000],
    [sec |-> "cell_info", key |-> "total_voltage", n |-> -1, off |-> 118, fmt |-> "<H", scale |-> 1000],
    [sec |-> "cell_info", key |-> "current", n |-> -1, off |-> 126, fmt |-> "<l", scale |-> 1000],
    [sec |-> "cell_info", key |-> "temperature_sensor_1", n |-> -1, off |-> 130, fmt |-> "<H", scale |-> 10],
    [sec |-> "cell_info", key |-> "temperature_sensor_2", n |-> -1, off |-> 132, fmt |-> "<H", scale |-> 10],
    [sec |-> "cell_info", key |-> "temperature_mos", n |-> -1, off |-> 134, fmt |-> "<H", scale |-> 10],
    [sec |-> "cell_info", key |-> "balancing_current", n |-> -1, off |-> 138, fmt |-> "<H", scale |-> 1000],
    [sec |-> "cell_info", key |-> "balancing_action", n |-> -1, off |-> 140, fmt |-> "<B", scale |-> 1000],
    [sec |-> "cell_info", key |-> "battery_soc", n |-> -1, off |-> 141, fmt |-> "B", scale |-> 0],
    [sec |-> "cell_info", key |-> "capacity_remain", n |-> -1, off |-> 142, fmt |-> "<L", scale |-> 1000],
    [sec |-> "cell_info", key |-> "capacity_nominal", n |-> -1, off |-> 146, fmt |-> "<L", scale |-> 1000],
    [sec |-> "cell_info", key |-> "cycle_count", n |-> -1, off |-> 150, fmt |-> "<L", scale |-> 0],
    [sec |-> "cell_info", key |-> "cycle_capacity", n |-> -1, off |-> 154, fmt |-> "<L", scale |-> 1000],
    [sec |-> "cell_info", key |-> "charging_switch_enabled", n |-> -1, off |-> 166, fmt |-> "1?", scale |-> 0],
    [sec |-> "cell_info", key |-> "discharging_switch_enabled", n |-> -1, off |-> 167, fmt |-> "1?", scale |-> 0],
    [sec |-> "cell_info", key |-> "balancing_active", n |-> -1, off |-> 191, fmt |-> "1?", scale |-> 0]
>>

TRANSLATE_CELL_INFO_32S == <<
    [sec |-> "cell_info", key |-> "voltages", n |-> 32, off |-> 6, fmt |-> "<H", scale |-> 1000],
    [sec |-> "cell_info", key |-> "average_cell_voltage", n |-> -1, off |-> 58, fmt |-> "<H", scale |-> 1000],
    [sec |-> "cell_info", key |-> "delta_cell_voltage", n |-> -1, off |-> 60, fmt |-> "<H", scale |-> 1000],
    [sec |-> "cell_info", key |-> "max_voltage_cell", n |-> -1, off |-> 62, fmt |-> "<B", scale |-> 0],
    [sec |-> "cell_info", key |-> "min_voltage_cell", n |-> -1, off |-> 63, fmt |-> "<B", scale |-> 0],
    [sec |-> "cell_info", key |-> "resistances", n |-> 32, off |-> 64, fmt |-> "<H", scale |-> 1000],
    [sec |-> "cell_info", key |-> "total_voltage", n |-> -1, off |-> 118, fmt |-> "<H", scale |-> 1000],
    [sec |-> "cell_info", key |-> "current", n |-> -1, off |-> 126, fmt |-> "<l", scale |-> 1000],
    [sec |-> "cell_info", key |-> "temperature_sensor_1", n |-> -1, off |-> 130, fmt |-> "<H", scale |-> 10],
    [sec |-> "cell_info", key |-> "temperature_sensor_2", n |-> -1, off |-> 132, fmt |-> "<H", scale |-> 10],
    [sec |-> "cell_info", key |-> "temperature_mos", n |-> -1, off |-> 112, fmt |-> "<H", scale |-> 10],
    [sec |-> "cell_info", key |-> "balancing_current", n |-> -1, off |-> 138, fmt |-> "<H", scale |-> 1000],
    [sec |-> "cell_info", key |-> "balancing_action", n |-> -1, off |-> 140, fmt |-> "<B", scale |-> 1000],
    [sec |-> "cell_info", key |-> "battery_soc", n |-> -1, off |-> 141, fmt |-> "B", scale |-> 0],
    [sec |-> "cell_info", key |-> "capacity_remain", n |-> -1, off |-> 142, fmt |-> "<L", scale |-> 1000],
    [sec |-> "cell_info", key |-> "capacity_nominal", n |-> -1, off |-> 146, fmt |-> "<L", scale |-> 1000],
    [sec |-> "cell_info", key |-> "cycle_count", n |-> -1, off |-> 150, fmt |-> "<L", scale |-> 0],
    [sec |-> "cell_info", key |-> "cycle_capacity", n |-> -1, off |-> 154, fmt |-> "<L", scale |-> 1000],
    [sec |-> "cell_info", key |-> "charging_switch_enabled", n |-> -1, off |-> 166, fmt |-> "1?", scale |-> 0],
    [sec |-> "cell_info", key |-> "discharging_switch_enabled", n |-> -1, off |-> 167, fmt |-> "1?", scale |-> 0],
    [sec |-> "cell_info", key |-> "balancing_active", n |-> -1, off |-> 191, fmt |-> "1?", scale |-> 0]
>>

\* c.to_bytes(2, "little")[0] of the byte sum: OverflowError from 2^16 on
crc_simple(arr, length) ==
    LET c == SumBytes(Slice(arr, 0, length))
    IN  IF c >= SUM_LIMIT THEN [exc |-> "OverflowError", val |-> NONE]
        ELSE [exc |-> "none", val |-> c % 256]

\* frame[4] = cmd  stores into a bytearray: ValueError unless 0 <= cmd <= 255
build_request_frame(cmd) ==
    LET frame == <<170, 85, 144, 235, cmd, 0>> \o Fill(0, 14)
    IN  IF cmd \notin 0..255 THEN [exc |-> "ValueError", frame |-> <<>>]
        ELSE [exc   |-> "none",
              frame |-> Slice(frame, 0, 19) \o <<crc_simple(frame, 19).val>>]

\* struct.calcsize(fmt)
calcsize(fmt) ==
    CASE fmt \in {"<L", "<l", "4?"} -> 4
      [] fmt = "<H" -> 2
      [] fmt \in {"<B", "B", "1?"} -> 1
      [] fmt = "8s" -> 8
      [] fmt = "10s" -> 10
      [] fmt = "16s" -> 16

\* little-endian unsigned integer of the n bytes at fb[pos:pos+n]
RECURSIVE UIntLE(_, _, _)
UIntLE(fb, pos, n) ==
    IF n = 0 THEN 0 ELSE At(fb, pos) + 256 * UIntLE(fb, pos + 1, n - 1)

\* bytes.decode("utf-8") succeeds on s from position i on
RECURSIVE Utf8Ok(_, _)
Utf8Ok(s, i) ==
    LET Cont(k) == k < Len(s) /\ At(s, k) >= 128 /\ At(s, k) <= 191
        In(k, lo, hi) == k < Len(s) /\ At(s, k) >= lo /\ At(s, k) <= hi
        b == At(s, i)
    IN  IF i >= Len(s) THEN TRUE
        ELSE IF b < 128 THEN Utf8Ok(s, i + 1)
        ELSE IF b >= 194 /\ b <= 223 THEN Cont(i + 1) /\ Utf8Ok(s, i + 2)
        ELSE IF b = 224 THEN In(i + 1, 160, 191) /\ Cont(i + 2) /\ Utf8Ok(s, i + 3)
        ELSE IF b = 237 THEN In(i + 1, 128, 159) /\ Cont(i + 2) /\ Utf8Ok(s, i + 3)
        ELSE IF b >= 225 /\ b <= 239 THEN Cont(i + 1) /\ Cont(i + 2) /\ Utf8Ok(s, i + 3)
        ELSE IF b = 240
          THEN In(i + 1, 144, 191) /\ Cont(i + 2) /\ Cont(i + 3) /\ Utf8Ok(s, i + 4)
        ELSE IF b >= 241 /\ b <= 243
          THEN Cont(i + 1) /\ Cont(i + 2) /\ Cont(i + 3) /\ Utf8Ok(s, i + 4)
        ELSE IF b = 244
          THEN In(i + 1, 128, 143) /\ Cont(i + 2) /\ Cont(i + 3) /\ Utf8Ok(s, i + 4)
        ELSE FALSE

\* str.rstrip(" \t\n\r\0")
RECURSIVE RStrip(_)
RStrip(s) ==
    IF s # <<>> /\ s[Len(s)] \in {32, 9, 10, 13, 0}
    THEN RStrip(SubSeq(s, 1, Len(s) - 1)) ELSE s

\* val.decode("utf-8").rstrip(...), "" on UnicodeDecodeError; a text is kept
\* as its UTF-8 bytes
DecodeText(raw) == IF Utf8Ok(raw, 0) THEN RStrip(raw) ELSE <<>>

\* struct.unpack_from(fmt, fb, pos)[0], followed by translate's text decoding;
\* pos + calcsize(fmt) <= len(fb) is the caller's to check.  The frames of the
\* model keep "<L" fields below 2^31.
Unpack(fmt, fb, pos) ==
    CASE fmt \in {"<L", "<H", "<B", "B"} -> UIntLE(fb, pos, calcsize(fmt))
      [] fmt = "<l" ->
            LET top == At(fb, pos + 3)
            IN  UIntLE(fb, pos, 3) + 16777216 * (IF top >= 128 THEN top - 256 ELSE top)
      [] fmt \in {"4?", "1?"} -> At(fb, pos) # 0
      [] fmt \in {"8s", "10s", "16s"} -> DecodeText(Slice(fb, pos, pos + calcsize(fmt)))

\* translate without the shift
ShiftOf_none(t, f32s) == 0

\* the offset shift of translate for the 32-cell layout
ShiftOf(t, f32s) ==
    IF f32s
    THEN IF t.off >= 112 THEN 32 ELSE IF t.off >= 54 THEN 16 ELSE 0
    ELSE 0

\* the loop  for j in keys  of translate over range(0, n): element j is read
\* at off + j * size + shift and stored in lst[j]
RECURSIVE ArrLoop(_, _, _, _, _)
ArrLoop(fb, t, shift, lst, j) ==
    LET size == calcsize(t.fmt)
        pos  == t.off + j * size + shift
    IN  IF j >= t.n THEN [lst |-> lst, exc |-> "none"]
        ELSE IF pos + size > Len(fb) THEN [lst |-> lst, exc |-> "struct.error"]
        ELSE IF j >= Len(lst) THEN [lst |-> lst, exc |-> "IndexError"]
        ELSE ArrLoop(fb, t, shift,
                     [lst EXCEPT ![j + 1] = Unpack(t.fmt, fb, pos)], j + 1)

\* JKDecoder.translate(fb, translation, o, f32s): the status o after the
\* entry, and the exception it ends with ("none": it returns)
translate(fb, t, o, f32s) ==
    LET shift == ShiftOf(t, f32s)
        o1    == IF t.sec \in DOMAIN o THEN o ELSE DictSet(o, t.sec, EmptyDict)
        sec   == o1[t.sec]
    IN  IF t.n = -1
        THEN IF t.off + shift + calcsize(t.fmt) > Len(fb)
             THEN [o |-> o1, exc |-> "struct.error"]
             ELSE [o   |-> DictSet(o1, t.sec,
                                   DictSet(sec, t.key, Unpack(t.fmt, fb, t.off + shift))),
                   exc |-> "none"]
        ELSE LET sec1 == IF t.key \in DOMAIN sec THEN sec
                         ELSE DictSet(sec, t.key, Fill(NONE, t.n))
                 r    == ArrLoop(fb, t, shift, sec1[t.key], 0)
             IN  [o   |-> DictSet(o1, t.sec, DictSet(sec1, t.key, r.lst)),
                  exc |-> r.exc]

\* for t in table: self.translate(fb, t, self.bms_status, f32s), from entry k on
RECURSIVE TranslateAll(_, _, _, _, _)
TranslateAll(fb, tbl, k, o, f32s) ==
    IF k > Len(tbl) THEN [o |-> o, exc |-> "none"]
    ELSE LET r == translate(fb, tbl[k], o, f32s)
         IN  IF r.exc # "none" THEN r
             ELSE TranslateAll(fb, tbl, k + 1, r.o, f32s)

Bit(val, k) == (val \div (2 ^ k)) % 2 = 1

\* JKDecoder.decode_warnings(fb); the two renderings of the bitmask (hex and
\* binary text) are kept as the number they render
decode_warnings(fb, o) ==
    LET val == UIntLE(fb, WARNINGS_POS, 2)
        ci0 == IF "cell_info" \in DOMAIN o THEN o["cell_info"] ELSE EmptyDict
        ci  == DictSet(DictSet(ci0, "error_bitmask_16", val), "error_bitmask_2", val)
        w   == [resistance_too_high   |-> Bit(val, 0),
                cell_count_wrong      |-> Bit(val, 2),
                charge_overtemp       |-> Bit(val, 8),
                charge_undertemp      |-> Bit(val, 9),
                discharge_overtemp    |-> Bit(val, 15),
                cell_overvoltage      |-> Bit(val, 4),
                cell_undervoltage     |-> Bit(val, 11),
                charge_overcurrent    |-> Bit(val, 6),
                discharge_overcurrent |-> Bit(val, 13)]
    IN  DictSet(DictSet(o, "cell_info", ci), "warnings", w)

\* the decoder object: frame_buffer, bms_status, waiting_for,
\* bms_max_cell_count (0: None), translate_cell_info (the table it refers to:
\* "none", "24S" or "32S") and the two module-level cell-info tables, which
\* translate_cell_info aliases
CurTable(d) ==
    IF d.translate_cell_info = "24S" THEN d.tbl24
    ELSE IF d.translate_cell_info = "32S" THEN d.tbl32
    ELSE <<>>

get_bms_max_cell_count(d) ==
    IF Len(d.frame_buffer) < VARIANT_MIN_LEN
    THEN [d EXCEPT !.bms_max_cell_count = 24, !.translate_cell_info = "24S"]
    ELSE IF At(d.frame_buffer, VARIANT_FLAG_POS) > 0
         THEN [d EXCEPT !.bms_max_cell_count = 32, !.translate_cell_info = "32S"]
    ELSE [d EXCEPT !.bms_max_cell_count = 24, !.translate_cell_info = "24S"]

decode_device_info(d) ==
    LET r == TranslateAll(d.frame_buffer, TRANSLATE_DEVICE_INFO, 1, d.bms_status, FALSE)
    IN  [d |-> [d EXCEPT !.bms_status = r.o], exc |-> r.exc]

\* self.translate_cell_info[i][0][-1] = ccount for the voltages and
\* resistances entries
SetCount(tbl, ccount) ==
    [i \in 1..Len(tbl) |->
        IF tbl[i].n # -1 /\ tbl[i].key \in {"voltages", "resistances"}
        THEN [tbl[i] EXCEPT !.n = ccount] ELSE tbl[i]]

decode_settings(d) ==
    LET r  == TranslateAll(d.frame_buffer, TRANSLATE_SETTINGS, 1, d.bms_status, FALSE)
        d1 == [d EXCEPT !.bms_status = r.o]
        ccount == r.o["settings"]["cell_count"]
    IN  IF r.exc # "none" THEN [d |-> d1, exc |-> r.exc]
        ELSE [d |-> IF d.translate_cell_info = "24S"
                      THEN [d1 EXCEPT !.tbl24 = SetCount(@, ccount)]
                    ELSE IF d.translate_cell_info = "32S"
                      THEN [d1 EXCEPT !.tbl32 = SetCount(@, ccount)]
                    ELSE d1,
              exc |-> "none"]

\* sum of the entries of lst that are not None and > 0
RECURSIVE SumPositive(_, _)
SumPositive(lst, n) ==
    IF n = 0 THEN 0
    ELSE (IF lst[n] # NONE /\ lst[n] > 0 THEN lst[n] ELSE 0) + SumPositive(lst, n - 1)

\* decode_cell_info without the derivation of total_voltage from the cells
DeriveCellInfo_nocomp(o) ==
    LET ci == o["cell_info"]
    IN  IF "current" \in DOMAIN ci /\ "total_voltage" \in DOMAIN ci
        THEN DictSet(o, "cell_info",
                     DictSet(ci, "power", ci["current"] * ci["total_voltage"]))
        ELSE o

\* the two derivations at the end of decode_cell_info.  current and
\* total_voltage are in 1/1000, so power is in 1/1000000; total_voltage < 1.0
\* is total_voltage < 1000
DeriveCellInfo(o) ==
    LET ci  == o["cell_info"]
        ci1 == IF "current" \in DOMAIN ci /\ "total_voltage" \in DOMAIN ci
               THEN DictSet(ci, "power", ci["current"] * ci["total_voltage"])
               ELSE ci
        vols == IF "voltages" \in DOMAIN ci1 THEN ci1["voltages"] ELSE <<>>
        s    == SumPositive(vols, Len(vols))
        tv   == IF "total_voltage" \in DOMAIN ci1 THEN ci1["total_voltage"] ELSE 0
        ci2  == IF s > 0 /\ tv < 1000 THEN DictSet(ci1, "total_voltage", s) ELSE ci1
    IN  DictSet(o, "cell_info", ci2)

decode_cell_info(d) ==
    LET has32s == d.bms_max_cell_count = 32
        r == TranslateAll(d.frame_buffer, CurTable(d), 1, d.bms_status, has32s)
    IN  IF r.exc # "none" THEN [d |-> [d EXCEPT !.bms_status = r.o], exc |-> r.exc]
        ELSE [d   |-> [d EXCEPT !.bms_status =
                                   DeriveCellInfo(decode_warnings(d.frame_buffer, r.o))],
              exc |-> "none"]

HasMarker(data) == Len(data) >= 4 /\ Slice(data, 0, 4) = MARKER

\* mutants of AppendChunk: the marker at the head of a chunk does not reset
\* the buffer; a marker-less chunk resets a buffer that holds a full frame
AppendChunk_noreset(fb, data) ==
    LET fb0 == IF Len(fb) > MAX_RESPONSE_SIZE THEN <<>> ELSE fb
    IN  fb0 \o data

AppendChunk_full(fb, data) ==
    LET fb0 == IF Len(fb) >= MIN_RESPONSE_SIZE THEN <<>> ELSE fb
        fb1 == IF HasMarker(data) THEN <<>> ELSE fb0
    IN  fb1 \o data

\* the first three statements of assemble_and_maybe_decode (and of
\* Assembler.feed): the two resets and the extend
AppendChunk(fb, data) ==
    LET fb0 == IF Len(fb) > MAX_RESPONSE_SIZE THEN <<>> ELSE fb
        fb1 == IF HasMarker(data) THEN <<>> ELSE fb0
    IN  fb1 \o data

\* JKDecoder.assemble_and_maybe_decode(data) at time now: the decoder after
\* the call, what it returns ("None" or the kind) and the exception it raises.
\* DecodeBuffered is the part that runs once MIN_RESPONSE_SIZE bytes are
\* buffered: the checksum test and the dispatch on the type byte
DecodeBuffered(d1, now) ==
    LET fb  == d1.frame_buffer
        crc == crc_simple(fb, MIN_RESPONSE_SIZE - 1)
        rx  == At(fb, MIN_RESPONSE_SIZE - 1)
        info_type == At(fb, 4)
        d2  == get_bms_max_cell_count(d1)
        Stamp(r, kind) ==
            IF r.exc # "none" THEN [d |-> r.d, ret |-> "raised", exc |-> r.exc]
            ELSE [d   |-> [r.d EXCEPT !.bms_status = DictSet(@, "last_update", now),
                                      !.waiting_for =
                                          IF kind = "settings" \/ @ = kind THEN "" ELSE @],
                  ret |-> kind, exc |-> "none"]
    IN  IF crc.exc # "none" THEN [d |-> d1, ret |-> "raised", exc |-> crc.exc]
        ELSE IF crc.val # rx THEN [d |-> d1, ret |-> "None", exc |-> "none"]
        ELSE IF info_type = 1 THEN Stamp(decode_settings(d2), "settings")
        ELSE IF info_type = 2 THEN Stamp(decode_cell_info(d2), "cell_info")
        ELSE IF info_type = 3 THEN Stamp(decode_device_info(d2), "device_info")
        ELSE [d |-> d2, ret |-> "None", exc |-> "none"]

\* assemble_and_maybe_decode without the test of the buffered length: reading
\* byte 299 of a shorter buffer raises IndexError
assemble_and_maybe_decode_nolen(d, data, now) ==
    LET d1 == [d EXCEPT !.frame_buffer = AppendChunk(d.frame_buffer, data)]
    IN  IF Len(d1.frame_buffer) < MIN_RESPONSE_SIZE
        THEN [d |-> d1, ret |-> "raised", exc |-> "IndexError"]
        ELSE DecodeBuffered(d1, now)

assemble_and_maybe_decode(d, data, now) ==
    LET d1 == [d EXCEPT !.frame_buffer = AppendChunk(d.frame_buffer, data)]
    IN  IF Len(d1.frame_buffer) < MIN_RESPONSE_SIZE
        THEN [d |-> d1, ret |-> "None", exc |-> "none"]
        ELSE DecodeBuffered(d1, now)

(* tools/jk_ble_probe.py *)

NoFrame == [info_type |-> NONE, frame |-> <<>>]

\* Assembler.feed(data): buf and last_good after the call, buf as it was
\* right after the extend, what feed returns (NoFrame: None), the exception
feed(a, data) ==
    LET b   == AppendChunk(a.buf, data)
        crc == crc_simple(b, MIN_RESPONSE_SIZE - 1)
        rx  == At(b, MIN_RESPONSE_SIZE - 1)
        good == [info_type |-> At(b, 4), frame |-> Slice(b, 0, MIN_RESPONSE_SIZE)]
        Stay(e) == [buf |-> b, mid |-> b, last_good |-> a.last_good,
                    ret |-> NoFrame, exc |-> e]
    IN  IF Len(b) < MIN_RESPONSE_SIZE THEN Stay("none")
        ELSE IF crc.exc # "none" THEN Stay(crc.exc)
        ELSE IF crc.val # rx THEN Stay("none")
        ELSE [buf |-> <<>>, mid |-> b, last_good |-> good, ret |-> good, exc |-> "none"]

---------------------------------------------------------------------------
(* Protocol B inputs: 300-byte frames as the device sends them, and the    *)
(* chunks of a notification stream                                         *)

U16(pos, v) == (pos :> v % 256) @@ (pos + 1 :> (v \div 256) % 256)
U32(pos, v) == U16(pos, v % 65536) @@ U16(pos + 2, v \div 65536)
S32(pos, v) ==
    IF v >= 0 THEN U32(pos, v)
    ELSE [i \in pos..(pos + 3) |-> 255 - U32(pos, -(v + 1))[i]]
Text(pos, bytes) == [i \in pos..(pos + Len(bytes) - 1) |-> bytes[i - pos + 1]]

\* a 300-byte frame: 4 header bytes, the type byte, the bytes of over (0-based
\* position -> byte) over a background byte, and the checksum plus csoff
MkFrameB(hdr, type, over, bg, csoff) ==
    LET body == [i \in 1..(MIN_RESPONSE_SIZE - 1) |->
                    IF i <= 4 THEN hdr[i]
                    ELSE IF i = 5 THEN type
                    ELSE IF (i - 1) \in DOMAIN over THEN over[i - 1]
                    ELSE bg]
    IN  Append(body, (SumBytes(body) + csoff) % 256)

\* cell info of a 32-cell device: 3 cells, average 3.300 V, resistance 0.055
\* of cell 1, MOS temperature 25.0, total voltage 0, current 1.5 A
CellOver32 ==
    U16(6, 3300) @@ U16(8, 3301) @@ U16(10, 3299) @@ U16(74, 3300) @@ U16(80, 55)
      @@ U16(144, 250) @@ U16(150, 0) @@ U32(158, 1500) @@ (VARIANT_FLAG_POS :> 1)
\* cell info of a 24-cell device: cells 1 and 3 (cell 2 reads 0), 13.2 V, -2 A
CellOver24 ==
    U16(6, 3300) @@ U16(8, 0) @@ U16(10, 3299) @@ U16(118, 13200)
      @@ S32(126, -2000)

JK_CI32   == MkFrameB(MARKER, 2, CellOver32, 0, 0)
JK_CI24   == MkFrameB(MARKER, 2, CellOver24, 0, 0)
JK_SET4   == MkFrameB(MARKER, 1, U32(18, 3650) @@ U32(114, 4), 0, 0)
\* settings whose cell_count (200) is more than a frame has room for
JK_SET200 == MkFrameB(MARKER, 1, U32(18, 3650) @@ U32(114, 200), 0, 0)
JK_DEV    == MkFrameB(MARKER, 3,
                     Text(6, <<74, 75, 45, 66, 50, 65>>) @@ Text(22, <<49, 49, 46, 88, 87, 32>>)
                       @@ Text(30, <<255, 49>>) @@ U32(38, 86400), 0, 0)
JK_UNK    == MkFrameB(MARKER, 4, EmptyDict, 0, 0)
JK_BADCS  == MkFrameB(MARKER, 2, CellOver24, 0, 1)
JK_NOMARK == MkFrameB(<<0, 0, 0, 0>>, 2, CellOver24, 0, 0)
\* every payload byte 0xFF: the byte sum is 75606
JK_HIGH    == MkFrameB(MARKER, 2, EmptyDict, 255, 0)
JK_HIGHBAD == MkFrameB(MARKER, 2, EmptyDict, 255, 1)
\* a chunk that holds the marker, but not at its head
C_SMALL  == <<0>> \o MARKER \o Fill(0, 16)

ChunksB ==
    { JK_CI32, Slice(JK_CI24, 0, 128), From(JK_CI24, 128), JK_SET4, JK_SET200,
      JK_DEV, JK_UNK, JK_BADCS, JK_NOMARK, JK_HIGH, JK_HIGHBAD, C_SMALL }

MaxNotifyB == 3

Decoder ==
    [frame_buffer |-> frame_buffer, bms_status |-> bms_status,
     waiting_for |-> waiting_for, bms_max_cell_count |-> bms_max_cell_count,
     translate_cell_info |-> translate_cell_info, tbl24 |-> tbl24, tbl32 |-> tbl32]

\* JKDecoder.__init__, Assembler.__init__ and the tables as the modules load
InitB ==
    /\ frame_buffer = <<>>
    /\ bms_status = [last_update |-> 0]
    /\ waiting_for = ""
    /\ bms_max_cell_count = 0
    /\ translate_cell_info = "none"
    /\ tbl24 = TRANSLATE_CELL_INFO_24S
    /\ tbl32 = TRANSLATE_CELL_INFO_32S
    /\ b_ret = "None" /\ b_exc = "none" /\ b_data = <<>> /\ b_n = 0
    /\ asm_buf = <<>> /\ asm_mid = <<>> /\ asm_last_good = NoFrame
    /\ asm_ret = NoFrame /\ asm_exc = "none"
    /\ b_pc = "notify"

\* one notification: ncb(sender, data) of jk_ble_read.main and of the probe
Notify(data) ==
    /\ b_pc = "notify"
    /\ b_pc' = b_pc
    /\ b_n < MaxNotifyB
    /\ b_n' = b_n + 1
    /\ b_data' = data
    /\ LET r == assemble_and_maybe_decode(Decoder, data, b_n + 1) IN
         /\ frame_buffer' = r.d.frame_buffer
         /\ bms_status' = r.d.bms_status
         /\ waiting_for' = r.d.waiting_for
         /\ bms_max_cell_count' = r.d.bms_max_cell_count
         /\ translate_cell_info' = r.d.translate_cell_info
         /\ tbl24' = r.d.tbl24
         /\ tbl32' = r.d.tbl32
         /\ b_ret' = r.ret
         /\ b_exc' = r.exc
    /\ LET f == feed([buf |-> asm_buf, last_good |-> asm_last_good], data) IN
         /\ asm_buf' = f.buf
         /\ asm_mid' = f.mid
         /\ asm_last_good' = f.last_good
         /\ asm_ret' = f.ret
         /\ asm_exc' = f.exc

\* the number of entries x of v with  x and x > 0
RECURSIVE CountPositive(_, _)
CountPositive(v, n) ==
    IF n = 0 THEN 0
    ELSE (IF v[n] # NONE /\ v[n] > 0 THEN 1 ELSE 0) + CountPositive(v, n - 1)

\* "Derivations for consumers" of main: the status after the block
MainDerivations(status) ==
    LET ci == IF "cell_info" \in DOMAIN status THEN status["cell_info"] ELSE EmptyDict
        v  == IF "voltages" \in DOMAIN ci THEN ci["voltages"] ELSE <<>>
        r  == IF "resistances" \in DOMAIN ci THEN ci["resistances"] ELSE <<>>
        inferred == CountPositive(v, Len(v))
        ci1 == DictSet(DictSet(ci, "cell_count_inferred", inferred),
                       "voltages", Slice(v, 0, inferred))
        ci2 == IF r # <<>> THEN DictSet(ci1, "resistances", Slice(r, 0, inferred)) ELSE ci1
    IN  IF inferred > 0 THEN DictSet(status, "cell_info", ci2) ELSE status

\* the end of main: the retry loop is left (both records are there, or the
\* timeout passed), notifications are stopped, the derivations are applied to
\* the decoder's status and the status is printed
MainFinish ==
    /\ b_pc = "notify"
    /\ b_pc' = "printed"
    /\ bms_status' = MainDerivations(bms_status)
    /\ UNCHANGED <<frame_buffer, waiting_for, bms_max_cell_count, translate_cell_info,
                   tbl24, tbl32, b_ret, b_exc, b_data, b_n,
                   asm_buf, asm_mid, asm_last_good, asm_ret, asm_exc>>

\* ---- crc_simple on one input ----
CrcArrs ==
    { Fill(b, n) : b \in {0, 1, 128, 255}, n \in {0, 1, 20, 257, 258, 299, 300} }
      \cup { JK_CI24, JK_HIGH, build_request_frame(150).frame }
CrcLens == {0, 19, 258, 299}

IdleCrc == crc_arr = <<>> /\ crc_n = 0 /\ crc_ret = [exc |-> "none", val |-> NONE]
             /\ crc_pc = "idle"

InitCrc == crc_arr \in CrcArrs /\ crc_n \in CrcLens
             /\ crc_ret = [exc |-> "none", val |-> NONE] /\ crc_pc = "call"

CallCrc ==
    /\ crc_pc = "call"
    /\ crc_ret' = crc_simple(crc_arr, crc_n)
    /\ crc_pc' = "done"
    /\ UNCHANGED <<crc_arr, crc_n>>

---------------------------------------------------------------------------
(* Protocol B register writes (tools/jk_ble_write.py)                      *)

\* build_write_frame with the register number stored as given
build_write_frame_nomask(reg, vals4, length) ==
    LET frame == <<170, 85, 144, 235, reg, length % 256>>
                    \o Slice(vals4, 0, 4) \o Fill(0, 10)
    IN  IF Len(frame) < 20 THEN [exc |-> "IndexError", frame |-> <<>>]
        ELSE [exc   |-> "none",
              frame |-> Slice(frame, 0, 19) \o <<crc_simple(frame, 19).val>>]

\* build_write_frame(reg, vals4, length).  frame[6:10] = vals4[:4] is a slice
\* assignment: fewer than 4 bytes shorten the frame, and frame[19] = ... then
\* raises IndexError
build_write_frame(reg, vals4, length) ==
    LET frame == <<170, 85, 144, 235, reg % 256, length % 256>>
                    \o Slice(vals4, 0, 4) \o Fill(0, 10)
    IN  IF Len(frame) < 20 THEN [exc |-> "IndexError", frame |-> <<>>]
        ELSE [exc   |-> "none",
              frame |-> Slice(frame, 0, 19) \o <<crc_simple(frame, 19).val>>]

PROTO_JK02_24S == "jk02_24s"
PROTO_JK02_32S == "jk02_32s"

\* NUM: key -> (jk02_24s_reg, jk02_32s_reg, factor, length)
NUM ==
    [cell_uvp_v        |-> [reg24 |-> 2,  reg32 |-> 2,  factor |-> 1000, length |-> 4],
     cell_uvpr_v       |-> [reg24 |-> 3,  reg32 |-> 3,  factor |-> 1000, length |-> 4],
     cell_ovp_v        |-> [reg24 |-> 4,  reg32 |-> 4,  factor |-> 1000, length |-> 4],
     cell_ovpr_v       |-> [reg24 |-> 5,  reg32 |-> 5,  factor |-> 1000, length |-> 4],
     balance_trigger_v |-> [reg24 |-> 6,  reg32 |-> 6,  factor |-> 1000, length |-> 4],
     power_off_v       |-> [reg24 |-> 11, reg32 |-> 11, factor |-> 1000, length |-> 4],
     max_charge_a      |-> [reg24 |-> 12, reg32 |-> 12, factor |-> 1000, length |-> 4],
     max_discharge_a   |-> [reg24 |-> 15, reg32 |-> 15, factor |-> 1000, length |-> 4],
     max_balance_a     |-> [reg24 |-> 19, reg32 |-> 19, factor |-> 1000, length |-> 4],
     balance_start_v   |-> [reg24 |-> 38, reg32 |-> 34, factor |-> 1000, length |-> 4],
     cell_req_charge_v |-> [reg24 |-> 9,  reg32 |-> 9,  factor |-> 1000, length |-> 4],
     cell_req_float_v  |-> [reg24 |-> 10, reg32 |-> 10, factor |-> 1000, length |-> 4],
     cell_soc100_v     |-> [reg24 |-> 7,  reg32 |-> 7,  factor |-> 1000, length |-> 4],
     cell_soc0_v       |-> [reg24 |-> 8,  reg32 |-> 8,  factor |-> 1000, length |-> 4]]

\* A value is the decimal whole + milli/1000 + tenth/10000 (whole may be
\* negative).  A Python int is kept as hi * 65536 + lo with 0 <= lo < 65536,
\* so that products beyond 32 bits are exact.
\* int(round(float(value) * factor)); the values of the model have no tie
RoundScaled(value, factor) ==
    LET q == (value.milli * 10 + value.tenth) * factor
        m == (q \div 10000) + (IF q % 10000 > 5000 THEN 1 ELSE 0)
        t == (value.whole % 65536) * factor + m
    IN  [hi |-> (value.whole \div 65536) * factor + (t \div 65536),
         lo |-> t % 65536]

\* mutant of u32_to_le_bytes: clamps to [0, 2^32 - 1] instead of masking
u32_to_le_bytes_clamp(v) ==
    IF v.hi < 0 THEN <<0, 0, 0, 0>>
    ELSE IF v.hi >= 65536 THEN <<255, 255, 255, 255>>
    ELSE <<v.lo % 256, v.lo \div 256, v.hi % 256, (v.hi \div 256) % 256>>

\* u32_to_le_bytes(v): the four bytes of v & 0xFFFFFFFF, low byte first
u32_to_le_bytes(v) ==
    <<v.lo % 256, v.lo \div 256, v.hi % 256, (v.hi \div 256) % 256>>

pick_reg(proto, reg24, reg32) == IF proto = PROTO_JK02_32S THEN reg32 ELSE reg24

NoWrite == [exc |-> "none", reg |-> NONE, vals4 |-> <<>>, length |-> 0,
            raw |-> [hi |-> 0, lo |-> 0]]

\* build_number_write(proto, key, value): (reg, vals4, length, meta.raw_u32),
\* or the exception
build_number_write(proto, key, value) ==
    IF key \notin DOMAIN NUM THEN [NoWrite EXCEPT !.exc = "KeyError"]
    ELSE LET e   == NUM[key]
             reg == pick_reg(proto, e.reg24, e.reg32)
             raw == RoundScaled(value, e.factor)
         IN  IF reg = NONE THEN [NoWrite EXCEPT !.exc = "ValueError"]
             ELSE [exc |-> "none", reg |-> reg, vals4 |-> u32_to_le_bytes(raw),
                   length |-> e.length, raw |-> raw]

\* ---- build_number_write on one input ----
WriteKeys   == {"cell_ovp_v", "balance_start_v", "max_charge_a", "no_such_key"}
WriteValues ==
    [whole : {-1, 0, 3, 4294967, 5000000}, milli : {0, 295, 296, 650}, tenth : {0, 4, 6}]

IdleW ==
    /\ nw_proto = "" /\ nw_key = ""
    /\ nw_value = [whole |-> 0, milli |-> 0, tenth |-> 0]
    /\ nw_ret = NoWrite /\ nw_pc = "idle"

InitW ==
    /\ nw_proto \in {PROTO_JK02_24S, PROTO_JK02_32S}
    /\ nw_key \in WriteKeys
    /\ nw_value \in WriteValues
    /\ nw_ret = NoWrite /\ nw_pc = "call"

CallNumberWrite ==
    /\ nw_pc = "call"
    /\ nw_ret' = build_number_write(nw_proto, nw_key, nw_value)
    /\ nw_pc' = "done"
    /\ UNCHANGED <<nw_proto, nw_key, nw_value>>

\* ---- the three frame encoders on one input ----
\* codes below 0, in 0..255 and above 255
EncCodes == (-1)..257 \cup {405}
EncVals4 == { <<>>, <<1, 2>>, <<16, 14, 0, 0>>, <<255, 255, 255, 255>>, <<1, 2, 3, 4, 5>> }
EncLengths == {0, 4, 260}

NoFrameYet == [exc |-> "none", frame |-> <<>>]

IdleE ==
    /\ enc_fn = "" /\ enc_code = 0 /\ enc_vals4 = <<>> /\ enc_length = 0
    /\ enc_ret = NoFrameYet /\ enc_pc = "idle"

InitE ==
    /\ enc_code \in EncCodes
    /\ \/ enc_fn \in {"build_request", "build_request_frame"}
          /\ enc_vals4 = <<>> /\ enc_length = 0
       \/ enc_fn = "build_write_frame"
          /\ enc_vals4 \in EncVals4 /\ enc_length \in EncLengths
    /\ enc_ret = NoFrameYet /\ enc_pc = "call"

CallEncoder ==
    /\ enc_pc = "call"
    /\ enc_ret' =
          CASE enc_fn = "build_request" ->
                   [exc |-> "none", frame |-> build_request(enc_code)]
            [] enc_fn = "build_request_frame" -> build_request_frame(enc_code)
            [] enc_fn = "build_write_frame" ->
                   build_write_frame(enc_code, enc_vals4, enc_length)
    /\ enc_pc' = "done"
    /\ UNCHANGED <<enc_fn, enc_code, enc_vals4, enc_length>>

---------------------------------------------------------------------------
(* run_once of tools/daly_ble_read.py: the core wait and the two segment   *)
(* collection loops.  run_once runs on the event loop that also delivers   *)
(* the notifications, so on_notify runs only while run_once is suspended   *)
(* in an await; an action below is the code between two awaits.  Time is   *)
(* counted in ticks of one asyncio.sleep of the loops; a sleep lasts one   *)
(* tick or more.                                                           *)

CMD_INFO == 148      \* 0x94
CMD_PACK == 144      \* 0x90
NO_TEMP  == -1000    \* Python's None in temps_c (a reading is -39 .. 215)

_u16be(b, i) == (At(b, i) % 256) * 256 + (At(b, i + 1) % 256)

decode_94(payload) ==
    [cell_count        |-> At(payload, 0),
     temp_count        |-> At(payload, 1),
     charger_connected |-> At(payload, 2) # 0,
     load_connected    |-> At(payload, 3) # 0,
     io_bits           |-> At(payload, 4),
     charge_cycles     |-> At(payload, 5) * 256 + At(payload, 6)]

decode_95_cells(payload) ==
    [frame_no |-> At(payload, 0),
     cells_mv |-> <<_u16be(payload, 1), _u16be(payload, 3), _u16be(payload, 5)>>,
     reserved |-> At(payload, 7)]

decode_96_temps(payload) ==
    [frame_no |-> At(payload, 0),
     temps_c  |-> [i \in 1..(Len(payload) - 1) |->
                      IF At(payload, i) = 0 THEN NO_TEMP ELSE At(payload, i) - 40]]

\* fr[4:12]
Payload(fr) == Slice(fr, 4, 12)

\* mutant of Sorted: descending order
RECURSIVE Sorted_desc(_)
Sorted_desc(S) ==
    IF S = {} THEN <<>>
    ELSE LET m == CHOOSE x \in S : \A y \in S : x >= y
         IN  <<m>> \o Sorted_desc(S \ {m})

\* sorted(keys)
RECURSIVE Sorted(_)
Sorted(S) ==
    IF S = {} THEN <<>>
    ELSE LET m == CHOOSE x \in S : \A y \in S : x <= y
         IN  <<m>> \o Sorted(S \ {m})

\* mutant of CellsLoop: the base is inferred anew from every segment
RECURSIVE CellsLoop_rebase(_, _, _, _, _)
CellsLoop_rebase(order, k, frames, base, by) ==
    IF k > Len(order) THEN [frame_base |-> base, cells_by_no |-> by]
    ELSE LET d     == decode_95_cells(Payload(frames[order[k]]))
             base1 == IF d.frame_no = 0 THEN 0 ELSE 1
             idx   == d.frame_no - base1
         IN  CellsLoop_rebase(order, k + 1, frames, base1,
                              IF idx >= 0 THEN DictSet(by, idx, d.cells_mv) ELSE by)

\* for fn, fr in list(st.cell_frames.items()): ... , from the k-th item on
RECURSIVE CellsLoop(_, _, _, _, _)
CellsLoop(order, k, frames, base, by) ==
    IF k > Len(order) THEN [frame_base |-> base, cells_by_no |-> by]
    ELSE LET d     == decode_95_cells(Payload(frames[order[k]]))
             base1 == IF base = NONE THEN (IF d.frame_no = 0 THEN 0 ELSE 1) ELSE base
             idx   == d.frame_no - base1
         IN  CellsLoop(order, k + 1, frames, base1,
                       IF idx >= 0 THEN DictSet(by, idx, d.cells_mv) ELSE by)

\* for idx in sorted(cells_by_no.keys()): flat.extend(cells_by_no[idx])
RECURSIVE FlatLoop(_, _, _)
FlatLoop(keys, k, by) ==
    IF k > Len(keys) THEN <<>> ELSE by[keys[k]] \o FlatLoop(keys, k + 1, by)

\* for fn in sorted(st.temp_frames.keys()): append the values that are not None
RECURSIVE TempsLoop(_, _, _, _)
TempsLoop(keys, k, frames, t) ==
    IF k > Len(keys) THEN t
    ELSE LET d == decode_96_temps(Payload(frames[keys[k]]))
         IN  TempsLoop(keys, k + 1, frames,
                       t \o SelectSeq(d.temps_c, LAMBDA tv : tv # NO_TEMP))

\* out["got"][...] and the list put in out["status"][...]; cells_v is kept in
\* thousandths of a volt (round(mv / 1000.0, 3) is mv thousandths)
NoOut == [got |-> FALSE, values |-> <<>>]

\* mutant of FinalCells: the list is not cut to cell_count
FinalCells_nocut(by, cc) ==
    IF DOMAIN by = {} THEN NoOut
    ELSE [got |-> TRUE, values |-> FlatLoop(Sorted(DOMAIN by), 1, by)]

\* if cells_by_no: ... out["status"]["cells_95"] = ...
FinalCells(by, cc) ==
    LET flat == FlatLoop(Sorted(DOMAIN by), 1, by)
    IN  IF DOMAIN by = {} THEN NoOut
        ELSE [got |-> TRUE, values |-> IF cc # 0 THEN Slice(flat, 0, cc) ELSE flat]

\* if temps: ... out["status"]["temps_96"] = ...
FinalTemps(t, tc) ==
    IF t = <<>> THEN NoOut
    ELSE [got |-> TRUE, values |-> IF tc # 0 THEN Slice(t, 0, tc) ELSE t]

\* need = (int(st.cell_count) + 2) // 3
Need(cc) == (cc + 2) \div 3

CoreTicks    == 2     \* ticks of args.timeout
PollTicks    == 2     \* ticks of the 2.5 s of a collection loop
MaxNotifyRun == 3     \* notifications during one run_once
Ticks == {1, 2}       \* what one sleep can last

Elapse(left, dt) == IF left > dt THEN left - dt ELSE 0

IdleR ==
    /\ r_pc = "idle" /\ t_left = 0 /\ cell_count = 0 /\ temp_count = 0
    /\ cells_by_no = EmptyDict /\ frame_base = NONE /\ temps = <<>>
    /\ out_cells = NoOut /\ out_temps = NoOut
    /\ cell_log = <<>> /\ temp_log = <<>> /\ cells_seen = 0 /\ temps_seen = 0

\* run_once has sent the request burst and is in its last sleep
InitR ==
    /\ r_pc = "burst" /\ t_left = 0 /\ cell_count = 0 /\ temp_count = 0
    /\ cells_by_no = EmptyDict /\ frame_base = NONE /\ temps = <<>>
    /\ out_cells = NoOut /\ out_temps = NoOut
    /\ cell_log = <<>> /\ temp_log = <<>> /\ cells_seen = 0 /\ temps_seen = 0

\* mutant of CoreGo: st.cell_frames is not cleared before the cells are requested
CoreGo_noclear(left) ==
    IF left > 0 /\ (CMD_INFO \notin DOMAIN st_frames \/ CMD_PACK \notin DOMAIN st_frames)
    THEN /\ r_pc' = "core_sleep"
         /\ t_left' = left
         /\ UNCHANGED <<cell_count, temp_count, cell_frames, cell_order, cell_log>>
    ELSE /\ r_pc' = "cells_req"
         /\ t_left' = 0
         /\ IF CMD_INFO \in DOMAIN st_frames
            THEN LET d94 == decode_94(Payload(st_frames[CMD_INFO]))
                 IN  cell_count' = d94.cell_count /\ temp_count' = d94.temp_count
            ELSE UNCHANGED <<cell_count, temp_count>>
         /\ cell_log' = <<>>
         /\ UNCHANGED <<cell_frames, cell_order>>

\* the core wait with left ticks to t_end: sleep again, or decode 0x94, clear
\* st.cell_frames and request the cells
CoreGo(left) ==
    IF left > 0 /\ (CMD_INFO \notin DOMAIN st_frames \/ CMD_PACK \notin DOMAIN st_frames)
    THEN /\ r_pc' = "core_sleep"
         /\ t_left' = left
         /\ UNCHANGED <<cell_count, temp_count, cell_frames, cell_order, cell_log>>
    ELSE /\ r_pc' = "cells_req"
         /\ t_left' = 0
         /\ IF CMD_INFO \in DOMAIN st_frames
            THEN LET d94 == decode_94(Payload(st_frames[CMD_INFO]))
                 IN  cell_count' = d94.cell_count /\ temp_count' = d94.temp_count
            ELSE UNCHANGED <<cell_count, temp_count>>
         /\ cell_frames' = EmptyDict
         /\ cell_order' = <<>>
         /\ cell_log' = <<>>

CoreStart ==
    /\ r_pc = "burst"
    /\ CoreGo(CoreTicks)
    /\ UNCHANGED <<buf, ret, st_frames, temp_frames, last_rx, a_n, a_pc, scen, a_data,
                   cells_by_no, frame_base, temps, out_cells, out_temps, temp_log,
                   cells_seen, temps_seen>>

CoreWake ==
    /\ r_pc = "core_sleep"
    /\ \E dt \in Ticks : CoreGo(Elapse(t_left, dt))
    /\ UNCHANGED <<buf, ret, st_frames, temp_frames, last_rx, a_n, a_pc, scen, a_data,
                   cells_by_no, frame_base, temps, out_cells, out_temps, temp_log,
                   cells_seen, temps_seen>>

\* one pass of the cell loop, up to its sleep
CellsPass(base, by) ==
    LET sp == split_frames(buf)
        r  == CellsLoop(cell_order, 1, cell_frames, base, by)
    IN  /\ buf' = sp.buf
        /\ ret' = sp.out
        /\ frame_base' = r.frame_base
        /\ cells_by_no' = r.cells_by_no
        /\ cells_seen' = Len(cell_log)
        /\ r_pc' = "cells_sleep"

\* the deadline, the empty aggregate and the first pass
CellsStart ==
    /\ r_pc = "cells_req"
    /\ t_left' = PollTicks
    /\ CellsPass(NONE, EmptyDict)
    /\ UNCHANGED <<st_frames, cell_frames, temp_frames, cell_order, last_rx, a_n, a_pc,
                   scen, a_data, cell_count, temp_count, temps, out_cells, out_temps,
                   cell_log, temp_log, temps_seen>>

\* after the sleep, either leave the loop (enough
\* buckets, or the deadline has passed), finalize, clear st.temp_frames and
\* request the temperatures, or make the next pass
CellsWake ==
    /\ r_pc = "cells_sleep"
    /\ \E dt \in Ticks :
         LET left == Elapse(t_left, dt)
             enough == /\ cell_count # 0
                       /\ DOMAIN cells_by_no # {}
                       /\ Cardinality(DOMAIN cells_by_no) >= Need(cell_count)
         IN  IF enough \/ left = 0
             THEN /\ out_cells' = FinalCells(cells_by_no, cell_count)
                  /\ temp_frames' = EmptyDict
                  /\ temp_log' = <<>>
                  /\ r_pc' = "temps_req"
                  /\ t_left' = left
                  /\ UNCHANGED <<buf, ret, frame_base, cells_by_no, cells_seen>>
             ELSE /\ t_left' = left
                  /\ CellsPass(frame_base, cells_by_no)
                  /\ UNCHANGED <<out_cells, temp_frames, temp_log>>
    /\ UNCHANGED <<st_frames, cell_frames, cell_order, last_rx, a_n, a_pc, scen, a_data,
                   cell_count, temp_count, temps, out_temps, cell_log, temps_seen>>

\* one pass of the temperature loop, up to its sleep
TempsPass(t) ==
    LET sp == split_frames(buf)
    IN  /\ buf' = sp.buf
        /\ ret' = sp.out
        /\ temps' = TempsLoop(Sorted(DOMAIN temp_frames), 1, temp_frames, t)
        /\ temps_seen' = Len(temp_log)
        /\ r_pc' = "temps_sleep"

\* the deadline, the empty list and the first pass of the temperature loop
TempsStart ==
    /\ r_pc = "temps_req"
    /\ t_left' = PollTicks
    /\ TempsPass(<<>>)
    /\ UNCHANGED <<st_frames, cell_frames, temp_frames, cell_order, last_rx, a_n, a_pc,
                   scen, a_data, cell_count, temp_count, cells_by_no, frame_base, out_cells,
                   out_temps, cell_log, temp_log, cells_seen>>

\* after the sleep, either leave the temperature loop and finalize, or make
\* the next pass
TempsWake ==
    /\ r_pc = "temps_sleep"
    /\ \E dt \in Ticks :
         LET left == Elapse(t_left, dt)
             enough == temp_count # 0 /\ temps # <<>> /\ Len(temps) >= temp_count
         IN  IF enough \/ left = 0
             THEN /\ out_temps' = FinalTemps(temps, temp_count)
                  /\ temps' = FinalTemps(temps, temp_count).values
                  /\ r_pc' = "done"
                  /\ t_left' = left
                  /\ UNCHANGED <<buf, ret, temps_seen>>
             ELSE /\ t_left' = left
                  /\ TempsPass(temps)
                  /\ UNCHANGED out_temps
    /\ UNCHANGED <<st_frames, cell_frames, temp_frames, cell_order, last_rx, a_n, a_pc,
                   scen, a_data, cell_count, temp_count, cells_by_no, frame_base, out_cells,
                   cell_log, temp_log, cells_seen>>

\* segments of the cell table and of the temperature table, the 0x94 + 0x90
\* answer (6 cells and 2 sensors; F94: 4 cells and 1 sensor)
F94_62 == RespA(CMD_INFO, <<6, 2, 0, 0, 0, 0, 0, 0>>)
F95_0  == RespA(CMD_CELLS, <<0, 12, 200, 12, 201, 12, 202, 0>>)
F95_1b == RespA(CMD_CELLS, <<1, 13, 0, 13, 1, 13, 2, 0>>)
F96_2  == RespA(CMD_TEMPS, <<2, 70, 71, 0, 0, 0, 0, 0>>)

ChunksRun ==
    { F94_62 \o F90_A5, F94 \o F90_A5, F95_0, F95_1, F95_1b, F95_2, F96_1, F96_2 }

\* a notification while run_once is suspended
NotifyRun(data) ==
    /\ a_n < MaxNotifyRun
    /\ on_notify(data)
    /\ cell_log' = cell_log \o SelectSeq(ret', LAMBDA fr : At(fr, 2) = CMD_CELLS)
    /\ temp_log' = temp_log \o SelectSeq(ret', LAMBDA fr : At(fr, 2) = CMD_TEMPS)
    /\ UNCHANGED <<r_pc, t_left, cell_count, temp_count, cells_by_no, frame_base,
                   temps, out_cells, out_temps, cells_seen, temps_seen>>

RunStep == CoreStart \/ CoreWake \/ CellsStart \/ CellsWake \/ TempsStart \/ TempsWake

---------------------------------------------------------------------------
(* main of tools/daly_ble_read.py: the try block around the read           *)

\* what an awaited call can raise.  asyncio.wait_for raises TimeoutError when
\* the overall timeout passes, the connect inside run_once raises it (or
\* BleakDeviceNotFoundError) itself; everything else is some other Exception
RunExcs  == {"BleakDeviceNotFoundError", "TimeoutError", "BleakError", "OSError"}
ScanExcs == {"TypeError", "BleakDeviceNotFoundError", "BleakError"}

NoError == [error |-> "None", traceback |-> FALSE, connected |-> FALSE]

IdleD ==
    /\ dm_pc = "idle" /\ dm_args = [debug |-> FALSE, scan |-> FALSE, adapter |-> FALSE]
    /\ dm_dev = FALSE /\ dm_out = NoError /\ dm_stdout = <<>> /\ dm_exit = NONE

\* the arguments are parsed and out is built: main enters the try block
InitD ==
    /\ dm_pc = "cache"
    /\ dm_args \in [debug : BOOLEAN, scan : BOOLEAN, adapter : BOOLEAN]
    /\ dm_dev = FALSE /\ dm_out = NoError /\ dm_stdout = <<>> /\ dm_exit = NONE

\* main without its except clauses: the exception leaves main, asyncio.run
\* re-raises it and the interpreter exits with status 1
Handle_propagate(e) ==
    /\ dm_out' = dm_out
    /\ dm_stdout' = dm_stdout
    /\ dm_exit' = 1
    /\ dm_pc' = "ended"

\* the except clauses: BleakDeviceNotFoundError, then Exception; each sets
\* out["error"], prints out and returns 0
Handle(e) ==
    /\ dm_out' = [dm_out EXCEPT !.error = e,
                                !.traceback = (e # "BleakDeviceNotFoundError" /\ dm_args.debug)]
    /\ dm_stdout' = Append(dm_stdout, dm_out')
    /\ dm_exit' = 0
    /\ dm_pc' = "ended"

\* cached = await _ble_device_from_bluez_cache(...): a device or None (the
\* helper catches what the BlueZ manager raises)
MainCache ==
    /\ dm_pc = "cache"
    /\ \E found \in BOOLEAN :
         /\ dm_dev' = found
         /\ dm_pc' = IF ~ found /\ dm_args.scan THEN "scan" ELSE "run"
    /\ UNCHANGED <<dm_args, dm_out, dm_stdout, dm_exit>>

\* dev = await BleakScanner.find_device_by_address(..., adapter=...)
MainScan ==
    /\ dm_pc = "scan"
    /\ \/ \E found \in BOOLEAN :
            /\ dm_dev' = found /\ dm_pc' = "run"
            /\ UNCHANGED <<dm_out, dm_stdout, dm_exit>>
       \/ /\ dm_pc' = "scan2"
          /\ UNCHANGED <<dm_dev, dm_out, dm_stdout, dm_exit>>
       \/ \E e \in ScanExcs \ {"TypeError"} : Handle(e) /\ UNCHANGED dm_dev
    /\ UNCHANGED dm_args

\* except TypeError: the same call without adapter=
MainScanFallback ==
    /\ dm_pc = "scan2"
    /\ \/ \E found \in BOOLEAN :
            /\ dm_dev' = found /\ dm_pc' = "run"
            /\ UNCHANGED <<dm_out, dm_stdout, dm_exit>>
       \/ \E e \in ScanExcs : Handle(e) /\ UNCHANGED dm_dev
    /\ UNCHANGED dm_args

\* await asyncio.wait_for(run_once(BleakClient(...)), timeout=overall), then
\* print(json.dumps(out)) and return 0
MainRun ==
    /\ dm_pc = "run"
    /\ \/ \E conn \in BOOLEAN :
            /\ dm_out' = [dm_out EXCEPT !.connected = conn]
            /\ dm_stdout' = Append(dm_stdout, dm_out')
            /\ dm_exit' = 0
            /\ dm_pc' = "ended"
       \/ \E e \in RunExcs : Handle(e)
    /\ UNCHANGED <<dm_args, dm_dev>>

---------------------------------------------------------------------------
(* tools/jk_ble_mqtt_gateway.py _run_read and the reader process it starts  *)
(* (main of tools/jk_ble_read.py)                                           *)

\* the options main gives to its ArgumentParser; each takes one value
ReaderOpts == {"--address", "--timeout", "--adapter"}

\* cmd of _run_read after [python, "-u", <path of jk_ble_read.py>]
GatewayArgv(in) ==
    <<"--address", in.address, "--timeout", in.timeout_s,
      "--scan-timeout", in.scan_timeout_s>>
      \o (IF in.adapter # "" THEN <<"--adapter", in.adapter>> ELSE <<>>)

\* ap.parse_args() on option/value pairs: FALSE when argparse ends the
\* process with status 2 (an unrecognized argument, or --address missing)
parse_args(argv) ==
    /\ \A i \in 1..Len(argv) : (i % 2 = 1) => argv[i] \in ReaderOpts
    /\ \E i \in 1..Len(argv) : i % 2 = 1 /\ argv[i] = "--address"

GwAddresses == {"C8:47:8C:00:00:01", "C8:47:8C:00:00:02"}
GwAdapters  == {"", "hci0", "hci1"}
GwTimeouts  == {"5.0", "20.0"}
GwScans     == {"0.0", "10.0"}

NoRun == [address |-> "", adapter |-> "", timeout_s |-> "", scan_timeout_s |-> ""]

\* argument lists typed by a user
ShellArgvs ==
    { <<"--address", a>> \o t \o d :
        a \in GwAddresses,
        t \in {<<>>, <<"--timeout", "5.0">>},
        d \in {<<>>, <<"--adapter", "hci1">>} }
      \cup { <<>>, <<"--timeout", "5.0">> }

IdleG ==
    /\ g_by = "" /\ g_in = NoRun /\ g_argv = <<>> /\ g_pc = "idle"
    /\ g_stdout = <<>> /\ g_rc = NONE /\ g_result = ""

InitG ==
    /\ \/ /\ g_by = "gateway"
          /\ g_in \in [address : GwAddresses, adapter : GwAdapters,
                        timeout_s : GwTimeouts, scan_timeout_s : GwScans]
          /\ g_argv = <<>>
       \/ /\ g_by = "shell"
          /\ g_in = NoRun
          /\ g_argv \in ShellArgvs
    /\ g_pc = "start" /\ g_stdout = <<>> /\ g_rc = NONE /\ g_result = ""

\* _run_read builds cmd and subprocess.run starts the reader (or the shell
\* starts it with the arguments typed)
Spawn ==
    /\ g_pc = "start"
    /\ g_argv' = IF g_by = "gateway" THEN GatewayArgv(g_in) ELSE g_argv
    /\ g_pc' = "spawned"
    /\ UNCHANGED <<g_by, g_in, g_stdout, g_rc, g_result>>

\* args = ap.parse_args(): on an error argparse prints the usage to stderr
\* and exits with status 2
ReaderParse ==
    /\ g_pc = "spawned"
    /\ IF parse_args(g_argv)
       THEN g_pc' = "connect" /\ g_rc' = g_rc
       ELSE g_pc' = "exited" /\ g_rc' = 2
    /\ UNCHANGED <<g_by, g_in, g_argv, g_stdout, g_result>>

\* async with BleakClient(...) as client: the connect succeeds, or raises;
\* main has no handler, the traceback goes to stderr and the status is 1
ReaderConnect ==
    /\ g_pc = "connect"
    /\ \/ g_pc' = "read" /\ g_rc' = g_rc
       \/ g_pc' = "exited" /\ g_rc' = 1
    /\ UNCHANGED <<g_by, g_in, g_argv, g_stdout, g_result>>

\* the body of the async with: notifications, requests, the retry loop, the
\* derivations and print(json.dumps(out)); or an exception of start_notify
\* or write_gatt_char, which nothing handles
ReaderRead ==
    /\ g_pc = "read"
    /\ \/ g_stdout' = Append(g_stdout, "out") /\ g_rc' = 0
       \/ g_stdout' = g_stdout /\ g_rc' = 1
    /\ g_pc' = "exited"
    /\ UNCHANGED <<g_by, g_in, g_argv, g_result>>

\* the rest of _run_read: the envelope for an empty stdout, else json.loads
RunReadReturn ==
    /\ g_pc = "exited" /\ g_by = "gateway"
    /\ g_result' = IF g_stdout = <<>> THEN "EmptyStdout" ELSE "json"
    /\ g_pc' = "returned"
    /\ UNCHANGED <<g_by, g_in, g_argv, g_stdout, g_rc>>

---------------------------------------------------------------------------
(* main of tools/jk_ble_write.py                                           *)

CHAR_UUID == "0000ffe1-0000-1000-8000-00805f9b34fb"
CHAR_HANDLE_FAILOVER == "handle 4"

\* Switches: key -> (jk02_24s_reg, jk02_32s_reg, length); NONE: None
SW ==
    [charging                    |-> [reg24 |-> 29,   reg32 |-> 29,  length |-> 4],
     discharging                 |-> [reg24 |-> 30,   reg32 |-> 30,  length |-> 4],
     balancer                    |-> [reg24 |-> 31,   reg32 |-> 31,  length |-> 4],
     emergency                   |-> [reg24 |-> NONE, reg32 |-> 107, length |-> 4],
     heating                     |-> [reg24 |-> NONE, reg32 |-> 39,  length |-> 4],
     disable_temperature_sensors |-> [reg24 |-> NONE, reg32 |-> 40,  length |-> 4],
     display_always_on           |-> [reg24 |-> NONE, reg32 |-> 43,  length |-> 4],
     smart_sleep                 |-> [reg24 |-> NONE, reg32 |-> 45,  length |-> 4],
     disable_pcl_module          |-> [reg24 |-> NONE, reg32 |-> 46,  length |-> 4],
     timed_stored_data           |-> [reg24 |-> NONE, reg32 |-> 47,  length |-> 4],
     charging_float_mode         |-> [reg24 |-> NONE, reg32 |-> 48,  length |-> 4]]

\* build_switch_write(proto, key, state)
build_switch_write(proto, key, state) ==
    IF key \notin DOMAIN SW THEN [NoWrite EXCEPT !.exc = "KeyError"]
    ELSE LET e   == SW[key]
             reg == pick_reg(proto, e.reg24, e.reg32)
             raw == [hi |-> 0, lo |-> IF state THEN 1 ELSE 0]
         IN  IF reg = NONE THEN [NoWrite EXCEPT !.exc = "ValueError"]
             ELSE [exc |-> "none", reg |-> reg, vals4 |-> u32_to_le_bytes(raw),
                   length |-> e.length, raw |-> raw]

\* round(value - d / 1000, 3) for a value without a fourth decimal
SubMilli(value, d) ==
    LET m == value.whole * 1000 + value.milli - d
    IN  [whole |-> m \div 1000, milli |-> m % 1000, tenth |-> 0]

Zero == [whole |-> 0, milli |-> 0, tenth |-> 0]

\* an entry of ops: ("num", key, value), ("soc_reset", None, None) or
\* ("sw", key, state)
OpNum(key, value) == [op |-> "num", key |-> key, val |-> value, state |-> FALSE]
OpSoc == [op |-> "soc_reset", key |-> "", val |-> Zero, state |-> FALSE]
OpSw(key, state) == [op |-> "sw", key |-> key, val |-> Zero, state |-> state]

\* ops as main collects it: the add_num calls in their order, --soc-reset,
\* then the add_sw calls
Ops(args) ==
    (IF args.set_ovp # <<>> THEN <<OpNum("cell_ovp_v", args.set_ovp[1])>> ELSE <<>>)
      \o (IF args.set_balance_start # <<>>
          THEN <<OpNum("balance_start_v", args.set_balance_start[1])>> ELSE <<>>)
      \o (IF args.soc_reset THEN <<OpSoc>> ELSE <<>>)
      \o (IF args.charging # "" THEN <<OpSw("charging", args.charging = "on")>> ELSE <<>>)

\* the command lines of the model
WmArgs ==
    [force : BOOLEAN, dry_run : BOOLEAN,
     proto : {"auto", "JK02_32S", "jk03"},
     max_cell_v : {<<>>, <<[whole |-> 3, milli |-> 450, tenth |-> 0]>>},
     set_ovp : {<<>>, <<[whole |-> 3, milli |-> 650, tenth |-> 0]>>},
     set_balance_start : {<<>>, <<[whole |-> 0, milli |-> 5, tenth |-> 0]>>},
     soc_reset : BOOLEAN,
     charging : {"", "off"}]

IdleX ==
    /\ wm_args = [force |-> FALSE, dry_run |-> FALSE, proto |-> "auto", max_cell_v |-> <<>>,
                  set_ovp |-> <<>>, set_balance_start |-> <<>>, soc_reset |-> FALSE,
                  charging |-> ""]
    /\ wm_ops = <<>> /\ wm_pc = "idle" /\ wm_i = 0 /\ wm_conn = "none"
    /\ wm_writes = <<>> /\ wm_stdout = <<>> /\ wm_exit = NONE

\* args = ap.parse_args() has returned
InitX ==
    /\ wm_args \in WmArgs
    /\ wm_ops = <<>> /\ wm_pc = "start" /\ wm_i = 0 /\ wm_conn = "none"
    /\ wm_writes = <<>> /\ wm_stdout = <<>> /\ wm_exit = NONE

\* proto = args.proto.strip().lower(), "auto" replaced by jk02_24s; "": invalid
ProtoOf(p) ==
    IF p = "auto" THEN PROTO_JK02_24S
    ELSE IF p = "JK02_32S" THEN PROTO_JK02_32S
    ELSE IF p = "JK02_24S" THEN PROTO_JK02_24S
    ELSE IF p \in {PROTO_JK02_24S, PROTO_JK02_32S} THEN p
    ELSE ""

\* raise SystemExit(message), and an exception that leaves main: status 1,
\* nothing on stdout
Die ==
    /\ wm_pc' = "ended" /\ wm_exit' = 1 /\ wm_stdout' = wm_stdout

\* main without the test of args.force
WmStart_noforce ==
    /\ wm_pc = "start"
    /\ wm_ops' = Ops(wm_args)
    /\ IF wm_ops' = <<>> THEN Die
       ELSE IF ProtoOf(wm_args.proto) = "" THEN Die
       ELSE IF wm_args.dry_run
       THEN /\ wm_stdout' = <<[planned |-> wm_ops', proto |-> ProtoOf(wm_args.proto)]>>
            /\ wm_pc' = "ended" /\ wm_exit' = 0
       ELSE /\ wm_pc' = "connect"
            /\ UNCHANGED <<wm_stdout, wm_exit>>
    /\ UNCHANGED <<wm_args, wm_i, wm_conn, wm_writes>>

\* main up to the connect: ops is collected, the three refusals, the dry run
WmStart ==
    /\ wm_pc = "start"
    /\ wm_ops' = Ops(wm_args)
    /\ IF wm_ops' = <<>> THEN Die
       ELSE IF ~ wm_args.force THEN Die
       ELSE IF ProtoOf(wm_args.proto) = "" THEN Die
       ELSE IF wm_args.dry_run
       THEN /\ wm_stdout' = <<[planned |-> wm_ops', proto |-> ProtoOf(wm_args.proto)]>>
            /\ wm_pc' = "ended" /\ wm_exit' = 0
       ELSE /\ wm_pc' = "connect"
            /\ UNCHANGED <<wm_stdout, wm_exit>>
    /\ UNCHANGED <<wm_args, wm_i, wm_conn, wm_writes>>

\* async with BleakClient(...) as client: the connect succeeds or raises
WmConnect ==
    /\ wm_pc = "connect"
    /\ \/ wm_conn' = "open" /\ wm_pc' = "ops" /\ wm_i' = 1
          /\ UNCHANGED <<wm_stdout, wm_exit>>
       \/ wm_conn' = "failed" /\ wm_i' = wm_i /\ Die
    /\ UNCHANGED <<wm_args, wm_ops, wm_writes>>

\* the targets a write can go out on: wr tries the UUID, then the handle
Targets == {CHAR_UUID, CHAR_HANDLE_FAILOVER}

\* the write wr(reg, vals4, length) issues on target t
WriteOf(w, t) == [target |-> t, frame |-> build_write_frame(w.reg, w.vals4, w.length).frame]

\* the register writes of one operation, in order; exc when it stops early
OpWrites(proto, o, args) ==
    IF o.op = "num"
    THEN LET w == build_number_write(proto, o.key, o.val)
         IN  [exc |-> w.exc, ws |-> IF w.exc = "none" THEN <<w>> ELSE <<>>]
    ELSE IF o.op = "sw"
    THEN LET w == build_switch_write(proto, o.key, o.state)
         IN  [exc |-> w.exc, ws |-> IF w.exc = "none" THEN <<w>> ELSE <<>>]
    ELSE IF args.max_cell_v = <<>> THEN [exc |-> "SystemExit", ws |-> <<>>]
    ELSE [exc |-> "none",
          ws  |-> <<build_number_write(proto, "cell_ovpr_v", SubMilli(args.max_cell_v[1], 100)),
                    build_number_write(proto, "cell_ovp_v", SubMilli(args.max_cell_v[1], 50))>>]

\* one pass of  for op, key, val in ops : the writes of the operation go out,
\* each on the UUID or on the handle, until one fails on both; an exception
\* leaves the async with, which disconnects
WmOp ==
    /\ wm_pc = "ops" /\ wm_i <= Len(wm_ops)
    /\ LET r == OpWrites(ProtoOf(wm_args.proto), wm_ops[wm_i], wm_args) IN
       \E n \in 0..Len(r.ws) : \E ts \in [1..n -> Targets] :
         /\ wm_writes' = wm_writes \o [k \in 1..n |-> WriteOf(r.ws[k], ts[k])]
         /\ IF n = Len(r.ws) /\ r.exc = "none"
            THEN /\ wm_i' = wm_i + 1
                 /\ UNCHANGED <<wm_pc, wm_conn, wm_stdout, wm_exit>>
            ELSE /\ wm_i' = wm_i /\ wm_conn' = "closed" /\ Die
    /\ UNCHANGED <<wm_args, wm_ops>>

\* the loop is over: the connection is closed and results is printed
WmFinish ==
    /\ wm_pc = "ops" /\ wm_i > Len(wm_ops)
    /\ wm_conn' = "closed"
    /\ wm_stdout' = <<[results |-> wm_writes, proto |-> ProtoOf(wm_args.proto)]>>
    /\ wm_pc' = "ended" /\ wm_exit' = 0
    /\ UNCHANGED <<wm_args, wm_ops, wm_i, wm_writes>>

---------------------------------------------------------------------------
(* The BLE lock: daly_ble_mqtt_gateway._with_ble_lock and the two _run_read *)

LockTries == 2       \* failed flock attempts (0.1 s apart) until the deadline
MaxLockReads == 2    \* read transactions of one gateway

\* the gateway processes of the host: one JK gateway, two DALY gateways, all
\* with the default BMS_BLE_LOCK_PATH
LkGateways == {"jk", "daly1", "daly2"}
LkTakesLock(g) == g \in {"daly1", "daly2"}

IdleL ==
    /\ lk_pc = [g \in LkGateways |-> "ended"]
    /\ lk_holder = ""
    /\ lk_tries = [g \in LkGateways |-> 0]
    /\ lk_reads = [g \in LkGateways |-> 0]

\* every gateway is in its run loop, no read transaction is open
InitL ==
    /\ lk_pc = [g \in LkGateways |-> "loop"]
    /\ lk_holder = ""
    /\ lk_tries = [g \in LkGateways |-> 0]
    /\ lk_reads = [g \in LkGateways |-> 0]

\* Gateway.run calls _run_read: the DALY gateway enters _with_ble_lock and
\* opens the lock file, the JK gateway calls subprocess.run at once
LkRunRead(g) ==
    /\ lk_pc[g] = "loop" /\ lk_reads[g] < MaxLockReads
    /\ lk_pc' = [lk_pc EXCEPT ![g] = IF LkTakesLock(g) THEN "flock" ELSE "reading"]
    /\ lk_tries' = [lk_tries EXCEPT ![g] = 0]
    /\ UNCHANGED <<lk_holder, lk_reads>>

\* one pass of the while True of _with_ble_lock: flock(LOCK_EX | LOCK_NB)
\* succeeds and fn() starts the reader, or raises BlockingIOError; then
\* TimeoutError once the deadline has passed, else sleep(0.1)
LkFlock(g) ==
    /\ lk_pc[g] = "flock"
    /\ IF lk_holder = ""
       THEN /\ lk_holder' = g
            /\ lk_pc' = [lk_pc EXCEPT ![g] = "reading"]
            /\ UNCHANGED lk_tries
       ELSE IF lk_tries[g] >= LockTries
       THEN /\ lk_pc' = [lk_pc EXCEPT ![g] = "ended"]
            /\ UNCHANGED <<lk_holder, lk_tries>>
       ELSE /\ lk_tries' = [lk_tries EXCEPT ![g] = @ + 1]
            /\ UNCHANGED <<lk_holder, lk_pc>>
    /\ UNCHANGED lk_reads

\* the reader subprocess ends and subprocess.run returns; in the DALY gateway
\* fn() returns and leaving the with closes the file, which drops the lock
LkReaderExit(g) ==
    /\ lk_pc[g] = "reading"
    /\ lk_pc' = [lk_pc EXCEPT ![g] = "loop"]
    /\ lk_holder' = IF lk_holder = g THEN "" ELSE lk_holder
    /\ lk_reads' = [lk_reads EXCEPT ![g] = @ + 1]
    /\ UNCHANGED lk_tries

---------------------------------------------------------------------------
(* Gateway.run, Gateway._on_message and Gateway._on_connect of both gateways *)

MaxClock == 3        \* ticks of time.time() in a run
MaxQueue == 2        \* commands waiting in self._cmdq
MaxReadTicks == 2        \* longest read, in ticks
PollIntervalTicks == 3   \* poll_interval_s of the configuration, in ticks
ConfigIntervalTicks == 1 \* a poll_interval_s that a cmd/config message sets

\* self.devices: the names of the configured devices
GwDevices == <<"d1", "d2">>
GwNames == {GwDevices[k] : k \in 1..Len(GwDevices)}

\* what _run_read returns, as far as run looks at it: payload["connected"]
\* and payload["error"] ("absent": no such key). jk_ble_read.py is started
\* with an option it rejects, so the JK gateway only ever gets the EmptyStdout
\* envelope; the DALY reader prints connected and error (None or an object),
\* and the two envelopes have connected False and an error object.
GwPayloads(kind) ==
    IF kind = "jk" THEN {[connected |-> "False", error |-> "dict"]}
    ELSE [connected : {"True", "False"}, error : {"None", "dict"}]

NoPayload == [connected |-> "absent", error |-> "absent"]

\* payload.get(key)
PyGet(payload, key) ==
    LET v == IF key = "connected" THEN payload.connected ELSE payload.error
    IN  IF v = "absent" THEN "None" ELSE v

\* bool(v)
Truthy(v) == v \in {"True", "dict"}

\* ok without the test of payload["error"]
GwOk_connected_only(payload) == Truthy(PyGet(payload, "connected"))

\* ok = bool(payload.get("connected")) and not payload.get("error")
GwOk(payload) ==
    Truthy(PyGet(payload, "connected")) /\ ~ Truthy(PyGet(payload, "error"))

\* "true" if ok else "false"
OnlineText(ok) == IF ok THEN "true" ELSE "false"

\* a publish call: self._t(dev, suffix) and the payload
Pub(name, suffix, payload) == [name |-> name, suffix |-> suffix, payload |-> payload]
\* json.dumps(payload), as far as the model knows the payload
PubRaw(name, payload) ==
    Pub(name, "raw", "connected=" \o payload.connected \o " error=" \o payload.error)

\* the last payload on each online topic after the publish calls pubs
RECURSIVE OnlineAfter(_, _)
OnlineAfter(online, pubs) ==
    IF pubs = <<>> THEN online
    ELSE OnlineAfter(IF Head(pubs).suffix = "online"
                     THEN [online EXCEPT ![Head(pubs).name] = Head(pubs).payload]
                     ELSE online,
                     Tail(pubs))

\* the topics of the messages the broker delivers, split at "/": read
\* commands for a device (base topic of one and of two levels), a config
\* command, a topic of three levels and one that is no command
GwTopics ==
    {<<"bms", "daly", "d2", "cmd", "read">>, <<"home", "bms", "jk", "d2", "cmd", "read">>,
     <<"bms", "daly", "d1", "cmd", "config">>,
     <<"d2", "cmd", "read">>, <<"bms", "jk", "d2", "cmd", "reads">>}

\* the payloads of cmd/config messages: poll_interval_s given (in ticks) or not
GwConfigs == {<<>>, <<ConfigIntervalTicks>>}

\* an entry of self._cmdq
Cmd(name, action, payload) == [name |-> name, action |-> action, payload |-> payload]

IdleGw ==
    /\ gw_kind = "jk" /\ gw_pc = "ended" /\ gw_clock = 0 /\ gw_now = 0
    /\ gw_next_poll = [n \in GwNames |-> 0]
    /\ gw_poll_interval_s = PollIntervalTicks
    /\ gw_cmdq = <<>> /\ gw_i = 0 /\ gw_did_work = FALSE
    /\ gw_drained = <<>> /\ gw_iter_reads = <<>> /\ gw_payload = NoPayload
    /\ gw_pub = <<>> /\ gw_online = [n \in GwNames |-> ""]

\* run has called self.connect() and set next_poll = {d.name: 0.0 ...}
InitGw ==
    /\ gw_kind \in {"jk", "daly"} /\ gw_pc = "top" /\ gw_clock = 0 /\ gw_now = 0
    /\ gw_next_poll = [n \in GwNames |-> 0]
    /\ gw_poll_interval_s = PollIntervalTicks
    /\ gw_cmdq = <<>> /\ gw_i = 0 /\ gw_did_work = FALSE
    /\ gw_drained = <<>> /\ gw_iter_reads = <<>> /\ gw_payload = NoPayload
    /\ gw_pub = <<>> /\ gw_online = [n \in GwNames |-> ""]

\* _on_message(msg) in the MQTT thread, parts = msg.topic.split("/")
\* (the JK gateway knows cmd/read only)
GwOnMessage(parts, cfg) ==
    /\ gw_pc # "ended" /\ Len(gw_cmdq) < MaxQueue
    /\ LET name == parts[Len(parts) - 2]
           cmd  == parts[Len(parts) - 1] \o "/" \o parts[Len(parts)]
       IN  gw_cmdq' =
             IF Len(parts) < 5 THEN gw_cmdq
             ELSE IF cmd = "cmd/read" THEN Append(gw_cmdq, Cmd(name, "read", <<>>))
             ELSE IF cmd = "cmd/config" /\ gw_kind = "daly"
             THEN Append(gw_cmdq, Cmd(name, "config", cfg))
             ELSE gw_cmdq
    /\ UNCHANGED <<gw_kind, gw_pc, gw_clock, gw_now, gw_next_poll, gw_poll_interval_s,
                   gw_i, gw_did_work, gw_drained, gw_iter_reads, gw_payload, gw_pub,
                   gw_online>>

\* _on_connect in the MQTT thread: meta and online = "false" for every device
OnConnectPubs ==
    [k \in 1..(2 * Len(GwDevices)) |->
        IF k % 2 = 1 THEN Pub(GwDevices[(k + 1) \div 2], "meta", "meta")
        ELSE Pub(GwDevices[k \div 2], "online", "false")]

GwOnConnect ==
    /\ gw_pc # "ended"
    /\ gw_online' = OnlineAfter(gw_online, OnConnectPubs)
    /\ UNCHANGED <<gw_kind, gw_pc, gw_clock, gw_now, gw_next_poll, gw_poll_interval_s,
                   gw_cmdq, gw_i, gw_did_work, gw_drained, gw_iter_reads, gw_payload,
                   gw_pub>>

\* the drain without  next_poll[name] = 0.0
RECURSIVE Drain_keep(_, _)
Drain_keep(q, st) ==
    IF q = <<>> THEN st
    ELSE LET c == Head(q)
             known == c.name \in GwNames
         IN  Drain_keep(Tail(q),
                   IF c.action = "read" THEN st
                   ELSE [next_poll |-> st.next_poll,
                         interval  |-> IF c.payload # <<>> /\ c.payload[1] >= 1
                                       THEN c.payload[1] ELSE st.interval,
                         pub       |-> IF known THEN Append(st.pub, Pub(c.name, "meta", "meta"))
                                       ELSE st.pub])

\* the effect of the queued commands q, taken in order, on next_poll,
\* poll_interval_s and the publish calls (a config command for a configured
\* device publishes its meta)
RECURSIVE Drain(_, _)
Drain(q, st) ==
    IF q = <<>> THEN st
    ELSE LET c == Head(q)
             known == c.name \in GwNames
         IN  Drain(Tail(q),
                   IF c.action = "read"
                   THEN [st EXCEPT !.next_poll[c.name] = 0]
                   ELSE [next_poll |-> IF known THEN [st.next_poll EXCEPT ![c.name] = 0]
                                       ELSE st.next_poll,
                         interval  |-> IF c.payload # <<>> /\ c.payload[1] >= 1
                                       THEN c.payload[1] ELSE st.interval,
                         pub       |-> IF known THEN Append(st.pub, Pub(c.name, "meta", "meta"))
                                       ELSE st.pub])

\* the names of the read commands in q, in order
RECURSIVE ReadNames(_)
ReadNames(q) ==
    IF q = <<>> THEN <<>>
    ELSE (IF Head(q).action = "read" THEN <<Head(q).name>> ELSE <<>>) \o ReadNames(Tail(q))

\* the head of an iteration: now = _now() and the queue is emptied
GwLoopTop ==
    /\ gw_pc = "top"
    /\ gw_now' = gw_clock
    /\ LET st == Drain(gw_cmdq, [next_poll |-> gw_next_poll, interval |-> gw_poll_interval_s,
                                 pub |-> <<>>])
       IN  /\ gw_next_poll' = st.next_poll
           /\ gw_poll_interval_s' = st.interval
           /\ gw_pub' = IF st.pub = <<>> THEN gw_pub ELSE st.pub
    /\ gw_drained' = ReadNames(gw_cmdq)
    /\ gw_cmdq' = <<>>
    /\ gw_did_work' = FALSE /\ gw_i' = 1 /\ gw_iter_reads' = <<>>
    /\ gw_pc' = "devices"
    /\ UNCHANGED <<gw_kind, gw_clock, gw_payload, gw_online>>

\* one pass of  for dev in self.devices  up to the call of _run_read
GwDevice ==
    /\ gw_pc = "devices" /\ gw_i <= Len(GwDevices)
    /\ LET name == GwDevices[gw_i] IN
       IF gw_now < gw_next_poll[name]
       THEN /\ gw_i' = gw_i + 1
            /\ UNCHANGED <<gw_pc, gw_did_work, gw_next_poll, gw_iter_reads>>
       ELSE /\ gw_did_work' = TRUE
            /\ gw_next_poll' = [gw_next_poll EXCEPT ![name] = gw_now + gw_poll_interval_s]
            /\ gw_iter_reads' = Append(gw_iter_reads, name)
            /\ gw_pc' = "reading"
            /\ UNCHANGED gw_i
    /\ UNCHANGED <<gw_kind, gw_clock, gw_now, gw_poll_interval_s, gw_cmdq, gw_drained,
                   gw_payload, gw_pub, gw_online>>

\* _run_read returns payload after d ticks: raw and online are published
GwReadReturn(payload, d) ==
    /\ gw_pc = "reading" /\ gw_clock + d <= MaxClock
    /\ gw_clock' = gw_clock + d
    /\ gw_payload' = payload
    /\ gw_pub' = <<PubRaw(GwDevices[gw_i], payload),
                   Pub(GwDevices[gw_i], "online", OnlineText(GwOk(payload)))>>
    /\ gw_online' = OnlineAfter(gw_online, gw_pub')
    /\ gw_i' = gw_i + 1 /\ gw_pc' = "devices"
    /\ UNCHANGED <<gw_kind, gw_now, gw_next_poll, gw_poll_interval_s, gw_cmdq, gw_did_work,
                   gw_drained, gw_iter_reads>>

\* the finally of run: online = "false" for every device, then close()
Finally ==
    /\ gw_pub' = [k \in 1..Len(GwDevices) |-> Pub(GwDevices[k], "online", "false")]
    /\ gw_online' = OnlineAfter(gw_online, gw_pub')
    /\ gw_pc' = "ended"

\* an exception leaves the loop: _run_read raises (TimeoutError of the BLE
\* lock, OSError of subprocess.run, KeyboardInterrupt while it waits)
GwRaise ==
    /\ gw_pc = "reading"
    /\ Finally
    /\ UNCHANGED <<gw_kind, gw_clock, gw_now, gw_next_poll, gw_poll_interval_s, gw_cmdq,
                   gw_i, gw_did_work, gw_drained, gw_iter_reads, gw_payload>>

\* the for loop is over: time.sleep(0.1) if nothing was read, back to the while
GwLoopEnd ==
    /\ gw_pc = "devices" /\ gw_i > Len(GwDevices)
    /\ IF gw_did_work THEN gw_clock' = gw_clock
       ELSE gw_clock < MaxClock /\ gw_clock' = gw_clock + 1
    /\ gw_pc' = "top"
    /\ UNCHANGED <<gw_kind, gw_now, gw_next_poll, gw_poll_interval_s, gw_cmdq, gw_i,
                   gw_did_work, gw_drained, gw_iter_reads, gw_payload, gw_pub, gw_online>>

---------------------------------------------------------------------------
(* Specifications *)

\* verify_frame on each input of VfInputs
InitVerify == InitVf /\ IdleA /\ IdleCrc /\ InitB /\ IdleW /\ IdleR /\ IdleE /\ IdleD /\ IdleG /\ IdleX /\ IdleL /\ IdleGw /\ IdleCk
NextVerify ==
    \/ CallVerify /\ UNCHANGED <<varsA, varsR, varsCrc, varsB, varsW, varsE, varsD, varsG, varsX, varsL, varsGw, varsCk>>
    \/ CallVerifyChanged /\ UNCHANGED <<varsA, varsR, varsCrc, varsB, varsW, varsE, varsD, varsG, varsX, varsL, varsGw, varsCk>>
SpecVerify == InitVerify /\ [][NextVerify]_vars

\* split_frames on each buffer <g1><A><g2><B> of Scenarios
InitSplitSpec == InitSplit /\ IdleVf /\ IdleCrc /\ InitB /\ IdleW /\ IdleR /\ IdleE /\ IdleD /\ IdleG /\ IdleX /\ IdleL /\ IdleGw /\ IdleCk
NextSplit == CallSplit /\ UNCHANGED <<varsR, varsVf, varsCrc, varsB, varsW, varsE, varsD, varsG, varsX, varsL, varsGw, varsCk>>
SpecSplit == InitSplitSpec /\ [][NextSplit]_vars

\* a protocol-A session
InitA == IdleA /\ IdleVf /\ IdleCrc /\ InitB /\ IdleW /\ IdleR /\ IdleE /\ IdleD /\ IdleG /\ IdleX /\ IdleL /\ IdleGw /\ IdleCk
NextA ==
    \/ \E data \in ChunksA : on_notify(data) /\ UNCHANGED <<varsR, varsVf, varsCrc, varsB, varsW, varsE, varsD, varsG, varsX, varsL, varsGw, varsCk>>
    \/ PollSplit /\ UNCHANGED <<varsR, varsVf, varsCrc, varsB, varsW, varsE, varsD, varsG, varsX, varsL, varsGw, varsCk>>
SpecA == InitA /\ [][NextA]_vars

\* crc_simple on each input of CrcArrs x CrcLens
InitCrcSpec == InitCrc /\ IdleA /\ IdleVf /\ InitB /\ IdleW /\ IdleR /\ IdleE /\ IdleD /\ IdleG /\ IdleX /\ IdleL /\ IdleGw /\ IdleCk
NextCrc == CallCrc /\ UNCHANGED <<varsA, varsR, varsVf, varsB, varsW, varsE, varsD, varsG, varsX, varsL, varsGw, varsCk>>
SpecCrc == InitCrcSpec /\ [][NextCrc]_vars

\* a protocol-B session
InitBSpec == InitB /\ IdleA /\ IdleVf /\ IdleCrc /\ IdleW /\ IdleR /\ IdleE /\ IdleD /\ IdleG /\ IdleX /\ IdleL /\ IdleGw /\ IdleCk
NextB ==
    \/ \E data \in ChunksB : Notify(data) /\ UNCHANGED <<varsA, varsR, varsVf, varsCrc, varsW, varsE, varsD, varsG, varsX, varsL, varsGw, varsCk>>
    \/ MainFinish /\ UNCHANGED <<varsA, varsR, varsVf, varsCrc, varsW, varsE, varsD, varsG, varsX, varsL, varsGw, varsCk>>
SpecB == InitBSpec /\ [][NextB]_vars

\* build_number_write on each input of WriteKeys x WriteValues
InitWrite == InitW /\ IdleA /\ IdleVf /\ IdleCrc /\ InitB /\ IdleR /\ IdleE /\ IdleD /\ IdleG /\ IdleX /\ IdleL /\ IdleGw /\ IdleCk
NextWrite == CallNumberWrite /\ UNCHANGED <<varsA, varsR, varsVf, varsCrc, varsB, varsE, varsD, varsG, varsX, varsL, varsGw, varsCk>>
SpecWrite == InitWrite /\ [][NextWrite]_vars

\* a session of either reader: the notifications of a protocol-A session, or
\* those of a protocol-B session
InitSession == IdleA /\ IdleVf /\ IdleCrc /\ InitB /\ IdleW /\ IdleR /\ IdleE /\ IdleD /\ IdleG /\ IdleX /\ IdleL /\ IdleGw /\ IdleCk
NextSession ==
    \/ b_n = 0 /\ b_pc = "notify" /\ NextA
    \/ a_n = 0 /\ NextB
SpecSession == InitSession /\ [][NextSession]_vars

\* daly_ble_read.main from its try block on
InitMain == InitD /\ IdleA /\ IdleVf /\ IdleCrc /\ InitB /\ IdleW /\ IdleR /\ IdleE /\ IdleG /\ IdleX /\ IdleL /\ IdleGw /\ IdleCk
NextMain ==
    \/ MainCache /\ UNCHANGED <<varsA, varsR, varsVf, varsCrc, varsB, varsW, varsE, varsG, varsX, varsL, varsGw, varsCk>>
    \/ MainScan /\ UNCHANGED <<varsA, varsR, varsVf, varsCrc, varsB, varsW, varsE, varsG, varsX, varsL, varsGw, varsCk>>
    \/ MainScanFallback /\ UNCHANGED <<varsA, varsR, varsVf, varsCrc, varsB, varsW, varsE, varsG, varsX, varsL, varsGw, varsCk>>
    \/ MainRun /\ UNCHANGED <<varsA, varsR, varsVf, varsCrc, varsB, varsW, varsE, varsG, varsX, varsL, varsGw, varsCk>>
SpecMain == InitMain /\ [][NextMain]_vars

\* one run of jk_ble_read.py, started by the gateway's _run_read or by hand
InitReader == InitG /\ IdleA /\ IdleVf /\ IdleCrc /\ InitB /\ IdleW /\ IdleR /\ IdleE /\ IdleD /\ IdleX /\ IdleL /\ IdleGw /\ IdleCk
NextReader ==
    \/ Spawn /\ UNCHANGED <<varsA, varsR, varsVf, varsCrc, varsB, varsW, varsE, varsD, varsX, varsL, varsGw, varsCk>>
    \/ ReaderParse /\ UNCHANGED <<varsA, varsR, varsVf, varsCrc, varsB, varsW, varsE, varsD, varsX, varsL, varsGw, varsCk>>
    \/ ReaderConnect /\ UNCHANGED <<varsA, varsR, varsVf, varsCrc, varsB, varsW, varsE, varsD, varsX, varsL, varsGw, varsCk>>
    \/ ReaderRead /\ UNCHANGED <<varsA, varsR, varsVf, varsCrc, varsB, varsW, varsE, varsD, varsX, varsL, varsGw, varsCk>>
    \/ RunReadReturn /\ UNCHANGED <<varsA, varsR, varsVf, varsCrc, varsB, varsW, varsE, varsD, varsX, varsL, varsGw, varsCk>>
SpecReader == InitReader /\ [][NextReader]_vars

\* one run of jk_ble_write.py
InitWriteMain == InitX /\ IdleA /\ IdleVf /\ IdleCrc /\ InitB /\ IdleW /\ IdleR /\ IdleE /\ IdleD /\ IdleG /\ IdleL /\ IdleGw /\ IdleCk
NextWriteMain ==
    \/ WmStart /\ UNCHANGED <<varsA, varsR, varsVf, varsCrc, varsB, varsW, varsE, varsD, varsG, varsL, varsGw, varsCk>>
    \/ WmConnect /\ UNCHANGED <<varsA, varsR, varsVf, varsCrc, varsB, varsW, varsE, varsD, varsG, varsL, varsGw, varsCk>>
    \/ WmOp /\ UNCHANGED <<varsA, varsR, varsVf, varsCrc, varsB, varsW, varsE, varsD, varsG, varsL, varsGw, varsCk>>
    \/ WmFinish /\ UNCHANGED <<varsA, varsR, varsVf, varsCrc, varsB, varsW, varsE, varsD, varsG, varsL, varsGw, varsCk>>
SpecWriteMain == InitWriteMain /\ [][NextWriteMain]_vars

\* the read transactions of a JK gateway and two DALY gateways on one host
InitLock == InitL /\ IdleA /\ IdleVf /\ IdleCrc /\ InitB /\ IdleW /\ IdleR /\ IdleE /\ IdleD /\ IdleG /\ IdleX /\ IdleGw /\ IdleCk
NextLock ==
    \/ \E g \in LkGateways : LkRunRead(g) /\ UNCHANGED <<varsA, varsR, varsVf, varsCrc, varsB, varsW, varsE, varsD, varsG, varsX, varsGw, varsCk>>
    \/ \E g \in LkGateways : LkFlock(g) /\ UNCHANGED <<varsA, varsR, varsVf, varsCrc, varsB, varsW, varsE, varsD, varsG, varsX, varsGw, varsCk>>
    \/ \E g \in LkGateways : LkReaderExit(g) /\ UNCHANGED <<varsA, varsR, varsVf, varsCrc, varsB, varsW, varsE, varsD, varsG, varsX, varsGw, varsCk>>
SpecLock == InitLock /\ [][NextLock]_vars

\* the run loop of one gateway with its MQTT callbacks
InitGateway == InitGw /\ IdleA /\ IdleVf /\ IdleCrc /\ InitB /\ IdleW /\ IdleR /\ IdleE /\ IdleD /\ IdleG /\ IdleX /\ IdleL /\ IdleCk
NextGateway ==
    \/ \E parts \in GwTopics : \E cfg \in GwConfigs : GwOnMessage(parts, cfg) /\ UNCHANGED <<varsA, varsR, varsVf, varsCrc, varsB, varsW, varsE, varsD, varsG, varsX, varsL, varsCk>>
    \/ GwOnConnect /\ UNCHANGED <<varsA, varsR, varsVf, varsCrc, varsB, varsW, varsE, varsD, varsG, varsX, varsL, varsCk>>
    \/ GwLoopTop /\ UNCHANGED <<varsA, varsR, varsVf, varsCrc, varsB, varsW, varsE, varsD, varsG, varsX, varsL, varsCk>>
    \/ GwDevice /\ UNCHANGED <<varsA, varsR, varsVf, varsCrc, varsB, varsW, varsE, varsD, varsG, varsX, varsL, varsCk>>
    \/ \E payload \in GwPayloads(gw_kind) : \E d \in 1..MaxReadTicks : GwReadReturn(payload, d) /\ UNCHANGED <<varsA, varsR, varsVf, varsCrc, varsB, varsW, varsE, varsD, varsG, varsX, varsL, varsCk>>
    \/ GwRaise /\ UNCHANGED <<varsA, varsR, varsVf, varsCrc, varsB, varsW, varsE, varsD, varsG, varsX, varsL, varsCk>>
    \/ GwLoopEnd /\ UNCHANGED <<varsA, varsR, varsVf, varsCrc, varsB, varsW, varsE, varsD, varsG, varsX, varsL, varsCk>>
SpecGateway == InitGateway /\ [][NextGateway]_vars

\* one stream delivered to two sessions, each cutting it its own way
InitChunk == InitCk /\ IdleA /\ IdleVf /\ IdleCrc /\ InitB /\ IdleW /\ IdleR /\ IdleE /\ IdleD /\ IdleG /\ IdleX /\ IdleL /\ IdleGw
NextChunk == \E e \in Sessions : \E n \in 0..Len(ck_stream) : FeedChunk(e, n) /\ UNCHANGED <<varsA, varsR, varsVf, varsCrc, varsB, varsW, varsE, varsD, varsG, varsX, varsL, varsGw>>
SpecChunk == InitChunk /\ [][NextChunk]_vars

\* a protocol-B session in which every valid frame has type 1, 2 or 3, heard
\* by a JKDecoder and by an Assembler
InitAsm == InitB /\ IdleA /\ IdleVf /\ IdleCrc /\ IdleW /\ IdleR /\ IdleE /\ IdleD /\ IdleG /\ IdleX /\ IdleL /\ IdleGw /\ IdleCk
NextAsm ==
    \/ \E data \in ChunksB \ {JK_UNK} : Notify(data) /\ UNCHANGED <<varsA, varsR, varsVf, varsCrc, varsW, varsE, varsD, varsG, varsX, varsL, varsGw, varsCk>>
    \/ MainFinish /\ UNCHANGED <<varsA, varsR, varsVf, varsCrc, varsW, varsE, varsD, varsG, varsX, varsL, varsGw, varsCk>>
SpecAsm == InitAsm /\ [][NextAsm]_vars

\* each frame encoder on each input
InitEnc == InitE /\ IdleA /\ IdleVf /\ IdleCrc /\ InitB /\ IdleW /\ IdleR /\ IdleD /\ IdleG /\ IdleX /\ IdleL /\ IdleGw /\ IdleCk
NextEnc == CallEncoder /\ UNCHANGED <<varsA, varsR, varsVf, varsCrc, varsB, varsW, varsD, varsG, varsX, varsL, varsGw, varsCk>>
SpecEnc == InitEnc /\ [][NextEnc]_vars

\* run_once and the notifications of one session
InitRun == IdleA /\ InitR /\ IdleVf /\ IdleCrc /\ InitB /\ IdleW /\ IdleE /\ IdleD /\ IdleG /\ IdleX /\ IdleL /\ IdleGw /\ IdleCk
NextRun ==
    \/ \E data \in ChunksRun : NotifyRun(data) /\ UNCHANGED <<varsVf, varsCrc, varsB, varsW, varsE, varsD, varsG, varsX, varsL, varsGw, varsCk>>
    \/ RunStep /\ UNCHANGED <<varsVf, varsCrc, varsB, varsW, varsE, varsD, varsG, varsX, varsL, varsGw, varsCk>>
SpecRun == InitRun /\ [][NextRun]_vars
\* run_once is never suspended for ever: every sleep returns
SpecRunFair == SpecRun /\ WF_varsR(RunStep)

---------------------------------------------------------------------------
(* Properties *)

\* positions p of s whose window s[p:p+13] passes validation
ValidPos(s) ==
    { p \in 0..(Len(s) - FRAME_LEN) : verify_frame(Slice(s, p, p + FRAME_LEN)) }

\* the windows a left-to-right scan emits: a validating window is emitted
\* unless it starts inside a window emitted before it
EmitPos(s) ==
    CHOOSE E \in SUBSET ValidPos(s) :
        \A p \in ValidPos(s) :
            p \in E <=> ~ \E q \in E : q < p /\ p < q + FRAME_LEN

RECURSIVE FramesAt(_, _)
FramesAt(s, E) ==
    IF E = {} THEN <<>>
    ELSE LET p == CHOOSE x \in E : \A y \in E : x <= y
         IN  <<Slice(s, p, p + FRAME_LEN)>> \o FramesAt(s, E \ {p})

\* no 13-byte window that starts inside g1 or g2 validates
CleanScenario(sc) ==
    \A p \in (0..(Len(sc.g1) - 1))
              \cup ((Len(sc.g1) + FRAME_LEN)..(Len(sc.g1) + FRAME_LEN + Len(sc.g2) - 1)) :
        ~ verify_frame(Slice(ScenBuf(sc), p, p + FRAME_LEN))

\* C1: split_frames returns, in stream order, exactly the windows of a
\* left-to-right scan that skips non-start bytes, skips a start byte whose
\* window fails validation by one byte and skips an emitted window whole; on
\* <g1><A><g2><B> with no validating window starting inside g1 or g2 the
\* result is [A, B] and the buffer is left empty.
C1_SplitFrames ==
    a_pc = "done" =>
        /\ ret = FramesAt(ScenBuf(scen), EmitPos(ScenBuf(scen)))
        /\ CleanScenario(scen) => (ret = <<scen.A, scen.B>> /\ buf = <<>>)

C1_Witness ==
    /\ a_pc = "done" /\ CleanScenario(scen)
    /\ Len(scen.g1) > 1 /\ Len(scen.g2) > 1
    /\ ret = <<scen.A, scen.B>>

\* C2 as amended: verify_frame accepts fr iff len(fr) = 13, fr[0] = 0xA5,
\* fr[3] = 0x08 and (fr[0] + ... + fr[11]) mod 256 = fr[12].
C2_VerifyFrame ==
    vf_pc = "done" =>
        (vf_ret <=>
            /\ Len(vf_fr) = 13
            /\ vf_fr[1] = 165
            /\ vf_fr[4] = 8
            /\ (vf_fr[1] + vf_fr[2] + vf_fr[3] + vf_fr[4] + vf_fr[5] + vf_fr[6]
                  + vf_fr[7] + vf_fr[8] + vf_fr[9] + vf_fr[10] + vf_fr[11] + vf_fr[12])
                 % 256 = vf_fr[13])

C2_Witness == vf_pc = "done" /\ vf_ret /\ vf_fr[3] = CMD_CELLS

\* C2 as stated: acceptance is decided by the length, the start byte and the
\* checksum alone.
C2_Original ==
    vf_pc = "done" =>
        (vf_ret <=>
            /\ Len(vf_fr) = 13
            /\ vf_fr[1] = 165
            /\ (vf_fr[1] + vf_fr[2] + vf_fr[3] + vf_fr[4] + vf_fr[5] + vf_fr[6]
                  + vf_fr[7] + vf_fr[8] + vf_fr[9] + vf_fr[10] + vf_fr[11] + vf_fr[12])
                 % 256 = vf_fr[13])

\* the frame at the head of a buffer is valid: marker 55 AA EB 90 and
\* byte 299 = low 8 bits of the sum of bytes 0..298
ChecksumOk(fb) ==
    SumBytes(Slice(fb, 0, MIN_RESPONSE_SIZE - 1)) % 256 = At(fb, MIN_RESPONSE_SIZE - 1)

\* C3: whenever assemble_and_maybe_decode decodes a record, the buffered frame
\* begins with the marker and its checksum byte matches.
C3_DecodedFrameValid ==
    b_ret \in {"settings", "cell_info", "device_info"} =>
        /\ Len(frame_buffer) >= MIN_RESPONSE_SIZE
        /\ Slice(frame_buffer, 0, 4) = MARKER
        /\ ChecksumOk(frame_buffer)

\* C4: crc_simple(arr, n) returns (sum of arr[0..n-1]) mod 256 for every arr
\* and n, also when the sum exceeds 16 bits.
C4_CrcSimple ==
    crc_pc = "done" =>
        /\ crc_ret.exc = "none"
        /\ crc_ret.val = SumBytes(Slice(crc_arr, 0, crc_n)) % 256

\* C5: a call of the chunk handler returns normally for every chunk.
C5_NeverRaises == b_exc = "none"

\* C6: a chunk of at least 4 bytes that begins with 55 AA EB 90 discards what
\* was buffered: right after the append the buffer is that chunk alone (in
\* JKDecoder and in the probe's Assembler).
C6_MarkerResets ==
    (b_n > 0 /\ HasMarker(b_data)) => (frame_buffer = b_data /\ asm_mid = b_data)

\* a marker-led chunk arrived when the buffer was not empty
C6_Witness ==
    b_n >= 2 /\ HasMarker(b_data) /\ frame_buffer = b_data /\ Len(b_data) < MIN_RESPONSE_SIZE

\* C7 as amended: a chunk that does not begin with the marker is appended to
\* the existing buffer, which is emptied first only when it already holds more
\* than MAX_RESPONSE_SIZE bytes.
C7_AppendOnly ==
    [][(b_n' = b_n + 1 /\ ~ HasMarker(b_data')) =>
          frame_buffer' =
              (IF Len(frame_buffer) > 320 THEN <<>> ELSE frame_buffer) \o b_data']_vars

\* a chunk with the marker at offset 1 was appended to a buffered frame
C7_Witness ==
    b_data = C_SMALL /\ Len(frame_buffer) = MIN_RESPONSE_SIZE + Len(C_SMALL)

\* C7 as stated: a chunk that does not begin with the marker is always
\* appended and never drops buffered bytes.
C7_Original ==
    [][(b_n' = b_n + 1 /\ ~ HasMarker(b_data')) =>
          frame_buffer' = frame_buffer \o b_data']_vars

\* C8: with at least 300 bytes buffered and a checksum mismatch the call
\* returns None, leaves bms_status and the variant alone and keeps the bytes.
C8_MismatchIsQuiet ==
    [][(b_n' = b_n + 1 /\ Len(frame_buffer') >= MIN_RESPONSE_SIZE
          /\ ~ ChecksumOk(frame_buffer')) =>
          /\ b_ret' = "None" /\ b_exc' = "none"
          /\ bms_status' = bms_status
          /\ bms_max_cell_count' = bms_max_cell_count
          /\ translate_cell_info' = translate_cell_info
          /\ Len(frame_buffer') >= Len(b_data')]_vars

\* C9: after every notification callback the retained buffer holds fewer than
\* 13 bytes and is empty or begins with 0xA5; a later split_frames of the
\* polling loops returns no frame.
C9_BufferBound ==
    /\ a_pc \in {"notified", "polled"} =>
          (Len(buf) < FRAME_LEN /\ (buf = <<>> \/ At(buf, 0) = START_A))
    /\ a_pc = "polled" => ret = <<>>

C9_Witness ==
    a_pc = "polled" /\ buf # <<>> /\ DOMAIN cell_frames # {} /\ a_n = MaxNotifyA

\* C10: once determined, the variant keeps its value for the session.
C10_VariantSticky ==
    [][bms_max_cell_count # 0 => bms_max_cell_count' = bms_max_cell_count]_vars

\* C11: the layout registries are read-only: after any sequence of frames the
\* cell-info tables of both variants equal their initial contents (the
\* settings and device-info tables are never assigned by the code)
C11_RegistriesReadOnly ==
    /\ tbl24 = TRANSLATE_CELL_INFO_24S
    /\ tbl32 = TRANSLATE_CELL_INFO_32S

\* the buffer holds a frame that passes the checksum and whose checksum was
\* computed without overflow, after a notification
ValidInBuffer ==
    /\ b_n > 0
    /\ Len(frame_buffer) >= MIN_RESPONSE_SIZE
    /\ SumBytes(Slice(frame_buffer, 0, MIN_RESPONSE_SIZE - 1)) < SUM_LIMIT
    /\ ChecksumOk(frame_buffer)

\* C12: a layout entry that would read past the end of the buffered frame
\* only omits that field: a checksum-valid cell-info frame is decoded to the
\* end (the warnings, decoded after the last entry, are there) and the call
\* returns "cell_info" without raising
C12_FieldOverflowOmitsField ==
    (ValidInBuffer /\ At(frame_buffer, 4) = 2) =>
        /\ b_exc = "none"
        /\ b_ret = "cell_info"
        /\ "warnings" \in DOMAIN bms_status

\* C13: a checksum-valid frame whose type byte is not 1, 2 or 3 is surfaced to
\* the caller: the call does not return None, which is what it returns when
\* no frame has arrived
C13_UnknownSurfaced ==
    (ValidInBuffer /\ At(frame_buffer, 4) \notin {1, 2, 3}) => b_ret # "None"

\* C14: for every key of NUM and every value, build_number_write produces the
\* 4-byte little-endian encoding of round(value * factor) clamped to
\* [0, 2^32 - 1]: 0 for a negative product, 0xFFFFFFFF for one above 2^32 - 1
C14_NumberWriteClamped ==
    (nw_pc = "done" /\ nw_key \in DOMAIN NUM) =>
        /\ nw_ret.exc = "none"
        /\ nw_ret.vals4 = u32_to_le_bytes_clamp(RoundScaled(nw_value, NUM[nw_key].factor))

\* ---- the segment aggregator of run_once ----
\* The history cell_log (temp_log) holds the segments delivered since the poll
\* of the command was issued; the first cells_seen (temps_seen) of them had
\* been delivered when the collection loop last read the segment table.

\* the segment indices among the first n deliveries of log
LogIndices(log, n) == { At(log[k], 4) : k \in 1..n }

\* the latest of the first n deliveries of log that has index fn
LatestFrame(log, n, fn) ==
    log[CHOOSE k \in 1..n :
            /\ At(log[k], 4) = fn
            /\ \A j \in (k + 1)..n : At(log[j], 4) # fn]

\* the three values a 0x95 segment carries, the values of a 0x96 segment that
\* are not empty
Values3(fr) == <<fr[6] * 256 + fr[7], fr[8] * 256 + fr[9], fr[10] * 256 + fr[11]>>
ValuesT(fr) == SelectSeq([i \in 1..7 |-> fr[5 + i]], LAMBDA b : b # 0)

RECURSIVE Flatten(_)
Flatten(ss) == IF ss = <<>> THEN <<>> ELSE Head(ss) \o Flatten(Tail(ss))

\* the elements of a set of numbers in ascending order
Ascending(S) ==
    CHOOSE sq \in [1..Cardinality(S) -> S] :
        \A i, j \in 1..Cardinality(S) : i < j => sq[i] < sq[j]

Truncated(sq, count) == IF count # 0 THEN SubSeq(sq, 1, Min2(count, Len(sq))) ELSE sq

CellsFinalized == r_pc \in {"temps_req", "temps_sleep", "done"}
TempsFinalized == r_pc = "done"

\* the base the first delivered segment implies, the buckets the consumed
\* deliveries fill, and the aggregate they flatten to
ExpBase == IF At(cell_log[1], 4) = 0 THEN 0 ELSE 1
ExpBuckets ==
    IF cells_seen = 0 THEN {}
    ELSE { i - ExpBase : i \in { j \in LogIndices(cell_log, cells_seen) : j >= ExpBase } }
ExpCells ==
    LET keys == Ascending(ExpBuckets)
    IN  Truncated(Flatten([k \in 1..Len(keys) |->
                              Values3(LatestFrame(cell_log, cells_seen, keys[k] + ExpBase))]),
                  cell_count)

\* C15: the finalized temperature aggregate holds the non-empty values of each
\* received segment exactly once, in ascending segment index, truncated to
\* temp_count when known, however many passes the loop made
C15_TempsOnce ==
    TempsFinalized =>
        LET keys == Ascending(LogIndices(temp_log, temps_seen))
            all  == Flatten([k \in 1..Len(keys) |->
                                [i \in 1..Len(ValuesT(LatestFrame(temp_log, temps_seen, keys[k]))) |->
                                    ValuesT(LatestFrame(temp_log, temps_seen, keys[k]))[i] - 40]])
        IN  out_temps.values = Truncated(all, temp_count)

\* C16: segments 1..n (3 values each), delivered in any order while the cells
\* are collected, with expected count 3n: the finalized list is the values of
\* segment 1, then of segment 2, ..., then of segment n
C16_CellsInIndexOrder ==
    \A n \in 1..3 :
        (/\ CellsFinalized
         /\ LogIndices(cell_log, cells_seen) = 1..n
         /\ cell_count = 3 * n)
        => /\ out_cells.got
           /\ out_cells.values =
                Flatten([i \in 1..n |-> Values3(LatestFrame(cell_log, cells_seen, i))])

\* segments 2 and 1 arrived in that order and the list was finalized
C16_Witness ==
    /\ CellsFinalized
    /\ cell_count = 6
    /\ cells_seen = 2
    /\ At(cell_log[1], 4) = 2 /\ At(cell_log[2], 4) = 1
    /\ Len(out_cells.values) = 6

\* C17: the base is 0 if the first segment observed has index 0 and 1
\* otherwise, it never changes once set, every segment is in bucket
\* (index - base) and a segment whose index is below the base is in no bucket
C17_BaseInference ==
    /\ [](/\ (frame_base = NONE) <=> (cells_seen = 0)
          /\ frame_base # NONE => frame_base = ExpBase
          /\ DOMAIN cells_by_no = ExpBuckets
          /\ \A b \in DOMAIN cells_by_no :
                cells_by_no[b] = Values3(LatestFrame(cell_log, cells_seen, b + frame_base)))
    /\ [][frame_base # NONE => frame_base' = frame_base]_vars

\* base 1 was inferred and a segment with index 0 was then discarded
C17_Witness ==
    /\ frame_base = 1
    /\ 0 \in LogIndices(cell_log, cells_seen)
    /\ Cardinality(DOMAIN cells_by_no) = 2

\* C18: when an index is delivered more than once with different payloads
\* while the cells are collected, the finalized aggregate holds the values of
\* the latest delivery for that index, once
C18_LastWriteWins ==
    (/\ CellsFinalized
     /\ \E j, k \in 1..cells_seen :
            j < k /\ At(cell_log[j], 4) = At(cell_log[k], 4) /\ cell_log[j] # cell_log[k])
    => /\ out_cells.got = (ExpBuckets # {})
       /\ out_cells.values = ExpCells

\* index 1 was delivered with one payload and then with another, in different
\* passes of the loop
C18_Witness ==
    /\ CellsFinalized
    /\ cells_seen = 2
    /\ cell_log = <<F95_1, F95_1b>>
    /\ out_cells.values = <<3328, 3329, 3330>>

\* C19: the cell loop is left only with enough buckets or past the deadline,
\* it makes no further pass once it has enough buckets, the finalized list has
\* at most cell_count values when cell_count is known, and the loop always ends
C19_CollectionFinalizes ==
    /\ [][/\ (r_pc = "cells_sleep" /\ r_pc' = "temps_req") =>
               \/ cell_count # 0 /\ Cardinality(DOMAIN cells_by_no) >= (cell_count + 2) \div 3
               \/ t_left' = 0
          /\ (r_pc = "cells_sleep" /\ r_pc' = "cells_sleep" /\ t_left' # t_left) =>
               /\ ~(cell_count # 0 /\ Cardinality(DOMAIN cells_by_no) >= (cell_count + 2) \div 3)
               /\ t_left' > 0]_vars
    /\ [](cell_count # 0 => Len(out_cells.values) <= cell_count)
    /\ ((r_pc = "cells_req") ~> CellsFinalized)

\* two segments were collected for four cells before the deadline, and the
\* list was cut to four values
C19_Witness ==
    /\ r_pc = "temps_req"
    /\ t_left > 0
    /\ cell_count = 4
    /\ Cardinality(DOMAIN cells_by_no) = 2
    /\ Len(out_cells.values) = 4

Rank(pc) ==
    CASE pc \in {"idle", "burst", "core_sleep"} -> 0
      [] pc = "cells_req" -> 1
      [] pc = "cells_sleep" -> 2
      [] pc = "temps_req" -> 3
      [] pc = "temps_sleep" -> 4
      [] pc = "done" -> 5

\* C20: per poll the aggregator goes Idle -> Collecting -> Finalized and never
\* back; the segment table holds nothing that was collected before the poll
\* was issued; a segment that arrives after finalization does not change the
\* finalized sequence
C20_AggregatorLifecycle ==
    /\ [](/\ DOMAIN cell_frames = LogIndices(cell_log, Len(cell_log))
          /\ DOMAIN temp_frames = LogIndices(temp_log, Len(temp_log))
          /\ r_pc = "cells_req" => cells_by_no = EmptyDict
          /\ r_pc = "temps_req" => temps = <<>>)
    /\ [][/\ Rank(r_pc') >= Rank(r_pc)
          /\ CellsFinalized => out_cells' = out_cells
          /\ TempsFinalized => out_temps' = out_temps]_vars

\* a cell segment arrived after the cell list was finalized
C20_Witness ==
    /\ CellsFinalized
    /\ out_cells.got
    /\ Len(cell_log) > cells_seen

\* ---- the cell-info record of protocol B ----
\* a notification completed a cell-info frame and decode_cell_info returned
CellInfoDecoded == b_pc = "notify" /\ b_n > 0 /\ b_ret = "cell_info" /\ b_exc = "none"

\* the record of the last decode
CellInfo == bms_status["cell_info"]

\* where the decoded frame holds the field of a layout entry: the table
\* offset, moved by 16 for offsets in [54, 112) and by 32 from 112 on in the
\* 32-cell variant
FieldPos(off) ==
    IF bms_max_cell_count = 32
    THEN (IF off >= 112 THEN off + 32 ELSE IF off >= 54 THEN off + 16 ELSE off)
    ELSE off

\* the total voltage as the frame carries it, in 1/1000 V
FrameTotal == At(frame_buffer, FieldPos(118)) + 256 * At(frame_buffer, FieldPos(118) + 1)

\* C21: if the total voltage decoded from the frame is below 1.0 V and at
\* least one cell voltage of the record is above 0, the record's total_voltage
\* is the sum of the cell voltages above 0 (to 3 decimals: the unit here is
\* 1/1000 V); if the decoded total is 1.0 V or more it is left as decoded
C21_TotalCompensated ==
    CellInfoDecoded =>
        LET s == SumPositive(CellInfo["voltages"], Len(CellInfo["voltages"]))
        IN  /\ (FrameTotal < 1000 /\ s > 0) => CellInfo["total_voltage"] = s
            /\ FrameTotal >= 1000 => CellInfo["total_voltage"] = FrameTotal

\* cells 3.300, 3.301, 3.299 and a decoded total of 0.000 give 9.900
C21_Witness ==
    /\ CellInfoDecoded
    /\ FrameTotal = 0
    /\ Slice(CellInfo["voltages"], 0, 3) = <<3300, 3301, 3299>>
    /\ CellInfo["total_voltage"] = 9900

\* C22: a decoded cell-info record that holds current and total_voltage holds
\* power = current * total_voltage, the total_voltage of that same record
\* (current and total_voltage in 1/1000, power in 1/1000000)
C22_PowerOfRecord ==
    (CellInfoDecoded /\ {"current", "total_voltage"} \subseteq DOMAIN CellInfo) =>
        /\ "power" \in DOMAIN CellInfo
        /\ CellInfo["power"] = CellInfo["current"] * CellInfo["total_voltage"]

\* C23: the trimming at the end of the reader removes only trailing slots:
\* every decoded cell voltage above 0 is still there, at its position, in the
\* voltages that are printed, and resistances has the length of voltages
C23_TrimKeepsCells ==
    [][(b_pc = "notify" /\ b_pc' = "printed" /\ "cell_info" \in DOMAIN bms_status
          /\ "voltages" \in DOMAIN CellInfo) =>
          LET v  == CellInfo["voltages"]
              v2 == bms_status'["cell_info"]["voltages"]
          IN  /\ \A i \in 1..Len(v) :
                    v[i] > 0 => (i <= Len(v2) /\ v2[i] = v[i])
              /\ "resistances" \in DOMAIN CellInfo =>
                    Len(bms_status'["cell_info"]["resistances"]) = Len(v2)]_vars

\* C24: every entry of the cell-info layout is read where the variant puts
\* it: in the 32-cell variant at table offset + 16 for offsets in [54, 112),
\* at table offset + 32 from 112 on and at the table offset below 54; in the
\* 24-cell variant at the table offset.  (total_voltage is left out when the
\* frame's total is below 1.0 V: it is then derived from the cells)
C24_VariantOffsets ==
    CellInfoDecoded =>
        LET tbl == IF bms_max_cell_count = 32 THEN tbl32 ELSE tbl24
        IN  \A k \in 1..Len(tbl) :
              LET t == tbl[k] IN
              IF t.n = -1
              THEN \/ t.key = "total_voltage" /\ FrameTotal < 1000
                   \/ CellInfo[t.key] = Unpack(t.fmt, frame_buffer, FieldPos(t.off))
              ELSE \A j \in 0..(t.n - 1) :
                     CellInfo[t.key][j + 1] =
                        Unpack(t.fmt, frame_buffer, FieldPos(t.off) + j * calcsize(t.fmt))

\* a 32-cell frame whose average (offset 58 + 16), first resistance (64 + 16),
\* MOS temperature (112 + 32) and current (126 + 32) differ from the bytes at
\* the table offsets
C24_Witness ==
    /\ CellInfoDecoded
    /\ bms_max_cell_count = 32
    /\ CellInfo["average_cell_voltage"] = 3300 /\ At(frame_buffer, 58) = 0
    /\ CellInfo["resistances"][1] = 55 /\ At(frame_buffer, 64) = 0
    /\ CellInfo["temperature_mos"] = 250 /\ At(frame_buffer, 112) = 0
    /\ CellInfo["current"] = 1500 /\ At(frame_buffer, 126) = 0

\* ---- the frame encoders ----
EncFrame == enc_ret.frame

\* the last byte is the sum of the bytes before it, modulo 256
LastIsSum(f) == f[Len(f)] = SumBytes(Slice(f, 0, Len(f) - 1)) % 256

\* C25: every frame an encoder builds starts with the protocol's marker,
\* holds the code masked to one byte at its position, a zero-filled payload
\* unless one is given, and ends with the sum of the bytes before it modulo
\* 256; build_request builds a frame for every cmd, and for cmd in 0..255
\* verify_frame accepts it
C25_EncodersWellFormed ==
    (enc_pc = "done" /\ enc_ret.exc = "none") =>
        /\ LastIsSum(EncFrame)
        /\ enc_fn = "build_request" =>
              /\ Len(EncFrame) = FRAME_LEN
              /\ Slice(EncFrame, 0, 2) = <<165, 64>>
              /\ At(EncFrame, 2) = enc_code % 256
              /\ At(EncFrame, 3) = 8
              /\ Slice(EncFrame, 4, 12) = Fill(0, 8)
              /\ enc_code \in 0..255 => verify_frame(EncFrame)
        /\ enc_fn = "build_request_frame" =>
              /\ Len(EncFrame) = 20
              /\ Slice(EncFrame, 0, 4) = <<170, 85, 144, 235>>
              /\ At(EncFrame, 4) = enc_code % 256
              /\ Slice(EncFrame, 5, 19) = Fill(0, 14)
        /\ enc_fn = "build_write_frame" =>
              /\ Len(EncFrame) = 20
              /\ Slice(EncFrame, 0, 4) = <<170, 85, 144, 235>>
              /\ At(EncFrame, 4) = enc_code % 256
              /\ At(EncFrame, 5) = enc_length % 256
              /\ Slice(EncFrame, 6, 10) = Slice(enc_vals4, 0, 4)
              /\ Slice(EncFrame, 10, 19) = Fill(0, 9)

\* a write frame for register 405 (0x195) carries 0x95 and the 4 value bytes
C25_Witness ==
    /\ enc_pc = "done" /\ enc_ret.exc = "none"
    /\ enc_fn = "build_write_frame" /\ enc_code = 405
    /\ enc_vals4 = <<16, 14, 0, 0>>
    /\ At(EncFrame, 4) = 149

\* C26: an accepted frame with exactly one payload byte (positions 4..11)
\* changed to a different value is rejected by verify_frame
C26_OneByteChangeRejected == vf_pc = "changed" => ~ vf_ret

\* the payload 1..8 with its last byte changed to 9, verified
C26_Witness ==
    /\ vf_pc = "changed"
    /\ Slice(vf_fr, 4, 12) = <<1, 2, 3, 4, 5, 6, 7, 9>>
    /\ ~ vf_ret

\* ---- chunks that leave less than a frame ----
\* fewer than 13 bytes from the first start byte of b on
TooShortA(b) == Len(b) - FindStart(b, 0) < FRAME_LEN

\* C27: a chunk after which the buffered data is still shorter than a frame
\* (protocol A: fewer than 13 bytes from a start byte; protocol B: fewer than
\* 300 bytes) produces no record, leaves st.frames and the segment tables
\* (bms_status) as they were and raises nothing
C27_TooShortIsQuiet ==
    [][/\ (a_n' = a_n + 1 /\ TooShortA(buf \o a_data')) =>
             /\ ret' = <<>>
             /\ st_frames' = st_frames
             /\ cell_frames' = cell_frames
             /\ temp_frames' = temp_frames
       /\ (b_n' = b_n + 1 /\ Len(frame_buffer') < MIN_RESPONSE_SIZE) =>
             /\ b_ret' = "None"
             /\ b_exc' = "none"
             /\ bms_status' = bms_status]_vars

\* three chunks of 21 bytes have arrived in protocol B: 63 bytes are buffered,
\* nothing was returned and the status is as constructed
C27_Witness ==
    /\ b_n = 3
    /\ frame_buffer = C_SMALL \o C_SMALL \o C_SMALL
    /\ b_ret = "None" /\ b_exc = "none"
    /\ bms_status = [last_update |-> 0]

\* ---- daly_ble_read.main ----
\* C28: however main ends after its arguments are parsed (the read succeeds,
\* the device is not found, the connect or the overall timeout passes, any
\* other exception is raised), exactly one JSON object has been printed and
\* the exit status is 0; nothing is printed before main ends
C28_AlwaysJson ==
    /\ dm_pc = "ended" => (Len(dm_stdout) = 1 /\ dm_exit = 0)
    /\ dm_pc \notin {"ended", "idle"} => (dm_stdout = <<>> /\ dm_exit = NONE)

\* the overall timeout passed with --debug: the object printed holds the
\* error and the traceback
C28_Witness ==
    /\ dm_pc = "ended" /\ dm_args.debug
    /\ dm_stdout = <<[error |-> "TimeoutError", traceback |-> TRUE, connected |-> FALSE]>>
    /\ dm_exit = 0

\* ---- the gateway's reads ----
\* C29: every run of jk_ble_read.py that _run_read starts, with the argument
\* list _run_read builds, ends with a JSON document on stdout, and _run_read
\* returns that document, not one of its envelopes
C29_GatewayReadPrintsJson ==
    /\ (g_by = "gateway" /\ g_pc \in {"exited", "returned"}) => Len(g_stdout) = 1
    /\ (g_by = "gateway" /\ g_pc = "returned") => g_result = "json"

\* ---- jk_ble_write.main ----
\* C30: a BLE connection is opened (or tried) and a register write is issued
\* only in a run with --force and without --dry-run
C30_WriteNeedsForce ==
    (wm_conn # "none" \/ wm_writes # <<>>) => (wm_args.force /\ ~ wm_args.dry_run)

\* a forced run has written cell_ovp_v = 3.650 (register 4, E4 0E 00 00)
C30_Witness ==
    /\ wm_pc = "ended" /\ wm_exit = 0
    /\ wm_args.force /\ ~ wm_args.dry_run
    /\ wm_conn = "closed"
    /\ Len(wm_writes) = 1
    /\ Slice(wm_writes[1].frame, 4, 10) = <<4, 4, 66, 14, 0, 0>>

\* C31: a run with --dry-run, at least one operation and a valid --proto ends
\* with status 0, the planned operations on stdout and no connection and no
\* write, with or without --force
C31_DryRunPrintsPlan ==
    (wm_pc = "ended" /\ wm_args.dry_run /\ wm_ops # <<>> /\ ProtoOf(wm_args.proto) # "")
        => /\ wm_exit = 0
           /\ wm_stdout = <<[planned |-> wm_ops, proto |-> ProtoOf(wm_args.proto)]>>
           /\ wm_conn = "none" /\ wm_writes = <<>>

\* the two writes of --soc-reset for this run's --proto and --max-cell-v
SocLowerOvpr ==
    build_number_write(ProtoOf(wm_args.proto), "cell_ovpr_v", SubMilli(wm_args.max_cell_v[1], 100))
SocLowerOvp ==
    build_number_write(ProtoOf(wm_args.proto), "cell_ovp_v", SubMilli(wm_args.max_cell_v[1], 50))

\* write k of the run sets register w.reg to the value of w / to another value
WritesValue(k, w) ==
    Slice(wm_writes[k].frame, 4, 6 + w.length) = <<w.reg, w.length>> \o SubSeq(w.vals4, 1, w.length)
WritesOther(k, w) ==
    /\ Slice(wm_writes[k].frame, 4, 6) = <<w.reg, w.length>>
    /\ ~ WritesValue(k, w)

\* C32: in a run that carried out --soc-reset, cell OVPR is lowered to
\* max_cell_v - 0.10, then cell OVP to max_cell_v - 0.05, and after that both
\* registers are written again with another value before the run ends
C32_SocResetRestores ==
    (wm_pc = "ended" /\ wm_exit = 0 /\ wm_args.soc_reset /\ wm_writes # <<>>)
        => \E i, j \in 1..Len(wm_writes) :
             /\ i < j
             /\ WritesValue(i, SocLowerOvpr) /\ WritesValue(j, SocLowerOvp)
             /\ \E k \in (j + 1)..Len(wm_writes) : WritesOther(k, SocLowerOvpr)
             /\ \E l \in (j + 1)..Len(wm_writes) : WritesOther(l, SocLowerOvp)

\* ---- the BLE lock ----
\* C33: no two reader subprocesses run at the same time, whichever gateways
\* of the host started them
C33_ReadsSerialized ==
    \A g, h \in LkGateways :
        (lk_pc[g] = "reading" /\ lk_pc[h] = "reading") => g = h

\* ---- Gateway.run ----
\* a step in which _run_read returns to run
ReadReturned == gw_pc = "reading" /\ gw_pc' = "devices"

\* C34: every poll publishes the payload it read on the device's raw topic
\* and then, on the device's online topic, "true" if the payload has a truthy
\* connected and no (or an empty) error and "false" otherwise; and once the
\* run loop has ended, the last payload published on every device's online
\* topic is "false"
C34_OnlineStatus ==
    /\ [][ReadReturned =>
            LET name == GwDevices[gw_i] IN
            /\ Len(gw_pub') = 2
            /\ gw_pub'[1] = PubRaw(name, gw_payload')
            /\ gw_pub'[2].name = name /\ gw_pub'[2].suffix = "online"
            /\ gw_pub'[2].payload = "true"
                   <=> (gw_payload'.connected = "True"
                        /\ gw_payload'.error \in {"None", "absent"})
            /\ gw_pub'[2].payload \in {"true", "false"}
            /\ gw_online'[name] = gw_pub'[2].payload]_vars
    /\ [](gw_pc = "ended" => \A n \in GwNames : gw_online[n] = "false")

\* the DALY gateway's last completed poll read connected = True without an
\* error, then a read raised and the loop ended with every device offline
C34_Witness ==
    /\ gw_kind = "daly" /\ gw_pc = "ended"
    /\ gw_payload = [connected |-> "True", error |-> "None"]
    /\ gw_pub = <<Pub("d1", "online", "false"), Pub("d2", "online", "false")>>
    /\ \A n \in GwNames : gw_online[n] = "false"

\* a step of the for loop of run: it passes a device by or calls _run_read
ForStep == gw_pc = "devices" /\ gw_i <= Len(GwDevices) /\ <<gw_pc, gw_i>>' # <<gw_pc, gw_i>>

Range(q) == {q[k] : k \in 1..Len(q)}

\* C35: a configured device for which the iteration has dequeued a read
\* command is not passed by when the for loop of that iteration comes to it,
\* whatever its next_poll was: _run_read is called for it; and an iteration
\* calls _run_read at most once for a device, however many read commands for
\* it were dequeued together
C35_OnDemandRead ==
    /\ [][(ForStep /\ GwDevices[gw_i] \in Range(gw_drained))
            => /\ gw_pc' = "reading"
               /\ gw_iter_reads' = Append(gw_iter_reads, GwDevices[gw_i])]_vars
    /\ [](\A j, k \in 1..Len(gw_iter_reads) : gw_iter_reads[j] = gw_iter_reads[k] => j = k)

\* two read commands for d2 were dequeued together at time 2; d1, polled with
\* d2 at time 0, is not due before time 3 and was passed by; d2 is being read
\* once
C35_Witness ==
    /\ gw_pc = "reading" /\ gw_now = 2
    /\ gw_drained = <<"d2", "d2">>
    /\ gw_next_poll["d1"] = 3
    /\ gw_iter_reads = <<"d2">>

\* ---- chunking ----
\* C36: two sessions that have been delivered the same bytes, cut into
\* notifications in any two ways, have got the same sequence of frames from
\* split_frames and hold the same buffer; in particular at the end of the
\* stream
C36_ChunkingInvariant ==
    ck_pos[1] = ck_pos[2] => (ck_out[1] = ck_out[2] /\ ck_buf[1] = ck_buf[2])

\* the whole stream garbage, F94, a start byte, F95_1 was delivered: to
\* session 1 in notifications that left bytes waiting in buf, to session 2
\* without any byte ever left waiting; both have F94 and F95_1
C36_Witness ==
    /\ ck_pos[1] = Len(ck_stream) /\ ck_pos[2] = Len(ck_stream)
    /\ ck_held[1] /\ ~ ck_held[2]
    /\ ck_out[1] = <<F94, F95_1>> /\ ck_out[2] = <<F94, F95_1>>
    /\ Len(ck_stream) = 30

\* ---- the two protocol-B assemblers ----
\* what assemble_and_maybe_decode returns for a frame of type t
KindOfType(t) ==
    IF t = 1 THEN "settings" ELSE IF t = 2 THEN "cell_info"
    ELSE IF t = 3 THEN "device_info" ELSE "None"

\* C37: on every chunk, Assembler.feed returns a frame exactly if
\* assemble_and_maybe_decode returns a kind, and the kind is that of the
\* frame's type byte
C37_AssemblersAgree ==
    b_n > 0 =>
        /\ (asm_ret # NoFrame) <=> (b_ret \in {"settings", "cell_info", "device_info"})
        /\ (asm_ret # NoFrame) => b_ret = KindOfType(asm_ret.info_type)

\* ---- the cell collection of run_once ----
\* the cell loop was left with the segment count satisfied
CellsEnough ==
    /\ r_pc \in {"temps_req", "temps_sleep", "done"}
    /\ cell_count # 0
    /\ Cardinality(DOMAIN cells_by_no) >= Need(cell_count)

\* C38: when the cell loop is left because the segment count is satisfied,
\* the buckets are exactly 0 .. ceil(cell_count / 3) - 1, and position k of
\* the finalized list (0-based) is value k mod 3 of bucket k div 3, the
\* voltage of cell k + 1
C38_NoGapBuckets ==
    CellsEnough =>
        /\ DOMAIN cells_by_no = 0..(Need(cell_count) - 1)
        /\ \A k \in 0..(Len(out_cells.values) - 1) :
             At(out_cells.values, k) = At(cells_by_no[k \div 3], k % 3)

\* ---- jk_ble_write.main: errors of its own ----
\* the run was ended by an error that main or build_*_write raised for the
\* operation the loop was at
OwnError ==
    /\ wm_pc = "ended" /\ wm_exit = 1 /\ wm_conn = "closed"
    /\ OpWrites(ProtoOf(wm_args.proto), wm_ops[wm_i], wm_args).exc # "none"

\* C39: a run that ends with an error of its own has issued no register write
C39_ValidatesFirst == OwnError => wm_writes = <<>>

=============================================================================
